---- MODULE Spec2Model ----
(***************************************************************************)
(* The pattern-match usefulness engine of                                  *)
(* crates/hir_ty/src/diagnostics/match_check/usefulness.rs:                *)
(* compute_match_usefulness, is_useful, Matrix, PatStack, SubPatSet,       *)
(* Usefulness and Witness, over the closed types {None, Some(bool)} and    *)
(* (bool, bool).  The constructor oracle (super::deconstruct_pat) is       *)
(* modelled from its specified interface.                                  *)
(***************************************************************************)
EXTENDS Integers, Sequences, FiniteSets, TLC

VARIABLES
    ty,              \* cx.infer[cx.match_expr]: the scrutinee's type
    arms,            \* the input slice of MatchArm {pat, has_guard}
    arena,           \* cx.pattern_arena: Seq(Pat); a PatId is an index
    matrix,          \* the driver's local `matrix`
    next_arm,        \* position of the driver's iterator over `arms`
    arm_usefulness,  \* the report's per-arm (arm, Reachability) list
    witnesses,       \* the report's non_exhaustiveness_witnesses
    usefulness,      \* the driver's local `usefulness` of the last is_useful call
    calls,           \* ghost: every (recursive) call of the last is_useful
    pc,              \* "arms" | "done" | "panic"; "sets" for the SubPatSet operations,
                     \* "adjustment" for Adjustment::is_identity
    sets,            \* the SubPatSets <<a, b, c>> an operation is applied to
    op,              \* the operation applied, "none" before
    out,             \* its arguments and results
    adjustment       \* the Adjustment that is_identity is called on

vars == <<ty, arms, arena, matrix, next_arm, arm_usefulness, witnesses,
          usefulness, calls, pc, sets, op, out, adjustment>>

\* Bound of the model: the longest arm list the driver is given.
MaxArms == 2

----------------------------------------------------------------------------
(* Small helpers on sequences and finite maps.  Throughout, a result that   *)
(* is used more than once is bound as the parameter of a local operator     *)
(* (LET K(r) == ... IN K(e)), so that it is computed once.                  *)

Restrict(f, S) == [x \in S |-> f[x]]

EmptyMap == [x \in {} |-> 0]

Rev(s) == [i \in 1..Len(s) |-> s[Len(s) + 1 - i]]

RECURSIVE SetToSeq(_)
\* The elements of a finite set of numbers, ascending.
SetToSeq(S) ==
    IF S = {} THEN <<>>
    ELSE LET m == CHOOSE x \in S : \A y \in S : x <= y
         IN <<m>> \o SetToSeq(S \ {m})

----------------------------------------------------------------------------
(* Patterns, constructors and the oracle.                                  *)

\* A Constructor value.  `lo`/`hi` are used by integer ranges only.
Ctor(tag) == [tag |-> tag, lo |-> 0, hi |-> 0]

Wildcard == Ctor("Wildcard")

Missing == Ctor("Missing")

OrCtor == Ctor("Or")

\* Constructor::IntRange(lo..=hi)
IntRange(lo, hi) == [tag |-> "IntRange", lo |-> lo, hi |-> hi]

\* The largest u8.
U8Max == 255

\* A Pat: its type and its kind.  `node` is a ghost label, the position of the
\* node in the arm it was lowered from; clones copy it and nothing reads it.
MkPat(kind, t, name, subs) ==
    [kind |-> kind, ty |-> t, name |-> name, lo |-> 0, hi |-> 0,
     subs |-> subs, node |-> <<>>]

\* Pat::wildcard_from_ty
wildcard_from_ty(t) == MkPat("Wild", t, "_", <<>>)

PVariant(t, name, subs) == MkPat("Variant", t, name, subs)

POr(t, alts) == MkPat("Or", t, "|", alts)

\* The u8 range pattern lo..=hi.
PRange(lo, hi) == [MkPat("Range", "U8", "..=", <<>>) EXCEPT !.lo = lo, !.hi = hi]

\* The value constructors of a closed type, in declaration order
\* (SplitWildcard::new's all_ctors).
all_ctors(t) ==
    CASE t = "Bool" -> <<Ctor("true"), Ctor("false")>>
      [] t = "OptBool" -> <<Ctor("None"), Ctor("Some")>>
      [] t = "Pair" -> <<Ctor("Pair")>>
      [] t = "U8" -> <<IntRange(0, U8Max)>>

\* The types of a constructor's fields, in canonical order.
field_tys(ctor) ==
    CASE ctor.tag = "Some" -> <<"Bool">>
      [] ctor.tag = "Pair" -> <<"Bool", "Bool">>
      [] OTHER -> <<>>

\* Constructor::from_pat: a binding or `_` is the wildcard constructor.
from_pat(pat) ==
    CASE pat.kind = "Wild" -> Wildcard
      [] pat.kind = "Or" -> OrCtor
      [] pat.kind = "Range" -> IntRange(pat.lo, pat.hi)
      [] OTHER -> Ctor(pat.name)

\* Constructor::is_covered_by(self, other): every constructor is covered by
\* the wildcard; Missing and Wildcard are covered by nothing else; a value
\* constructor is covered by itself, an integer range by the ranges that
\* contain it.
is_covered_by(self, other) ==
    IF other.tag = "Wildcard" THEN TRUE
    ELSE IF self.tag \in {"Missing", "Wildcard"} THEN FALSE
    ELSE IF self.tag = "IntRange" /\ other.tag = "IntRange"
    THEN other.lo <= self.lo /\ self.hi <= other.hi
    ELSE self = other

\* IntRange::split: the range cut at the borders of the head ranges that
\* meet it, so that each piece is inside or outside every head range.
IntRange_split(self, head_ctors) ==
    LET meets(h) == h.tag = "IntRange" /\ h.lo <= self.hi /\ self.lo <= h.hi
        heads == {head_ctors[i] : i \in 1..Len(head_ctors)}
        starts == {self.lo}
                  \cup {h.lo : h \in {x \in heads : meets(x) /\ x.lo > self.lo}}
                  \cup {h.hi + 1 : h \in {x \in heads : meets(x) /\ x.hi < self.hi}}
        Pieces(ss) ==
          [k \in 1..Len(ss) |->
             IntRange(ss[k], IF k = Len(ss) THEN self.hi ELSE ss[k + 1] - 1)]
    IN Pieces(SetToSeq(starts))

RECURSIVE split_all(_, _, _)
\* SplitWildcard::split: every constructor of the type, split against the
\* heads.
split_all(ctors, i, head_ctors) ==
    IF i > Len(ctors) THEN <<>>
    ELSE (IF ctors[i].tag = "IntRange" THEN IntRange_split(ctors[i], head_ctors)
          ELSE <<ctors[i]>>)
         \o split_all(ctors, i + 1, head_ctors)

\* SplitWildcard::iter_missing: the value constructors of the type that no
\* head constructor of the matrix covers.
iter_missing(t, head_ctors) ==
    SelectSeq(split_all(all_ctors(t), 1, head_ctors),
              LAMBDA c : \A i \in 1..Len(head_ctors) :
                            head_ctors[i].tag = "Wildcard"
                            \/ ~is_covered_by(c, head_ctors[i]))

\* Constructor::split: a value constructor splits into itself; the wildcard
\* splits into every constructor of the type, or into Missing when the matrix
\* heads do not cover them all.
split(ctor, t, head_ctors) ==
    IF ctor.tag = "Wildcard"
    THEN IF iter_missing(t, head_ctors) # <<>> THEN <<Missing>>
         ELSE split_all(all_ctors(t), 1, head_ctors)
    ELSE IF ctor.tag = "IntRange" THEN IntRange_split(ctor, head_ctors)
    ELSE <<ctor>>

\* Constructor::apply on field patterns: the surface pattern of a constructor.
apply(ctor, t, pats) ==
    IF ctor.tag \in {"Wildcard", "Missing"} THEN wildcard_from_ty(t)
    ELSE IF ctor.tag = "IntRange" THEN PRange(ctor.lo, ctor.hi)
    ELSE PVariant(t, ctor.tag, pats)

\* MatchCheckCtx::alloc_pat for a sequence of patterns: the grown arena and
\* the new handles.
alloc_pats(a, pats) ==
    [a |-> a \o pats, ids |-> [i \in 1..Len(pats) |-> Len(a) + i]]

\* Fields::wildcards: one wildcard handle per field of the constructor.
Fields_wildcards(ctor, a) ==
    alloc_pats(a, [i \in 1..Len(field_tys(ctor)) |->
                      wildcard_from_ty(field_tys(ctor)[i])])

\* Fields::replace_with_pattern_arguments: the arguments of the head pattern
\* laid over the wildcard fields; a wildcard head keeps the wildcards.
replace_with_pattern_arguments(fields, head, a) ==
    IF a[head].kind = "Variant"
    THEN alloc_pats(a, a[head].subs)
    ELSE [a |-> a, ids |-> fields]

----------------------------------------------------------------------------
(* PatIdExt, PatStack and Matrix.                                          *)

is_or_pat(pat, a) == a[pat].kind = "Or"

RECURSIVE expand(_, _, _)
RECURSIVE expand_pats(_, _, _, _)
\* The inner fn expand that clones a pattern that is no or-pattern.
expand_clones_leaf(pat, vec, pat_arena) ==
    IF pat_arena[pat].kind = "Or"
    THEN expand_pats(pat_arena[pat].subs, 1, vec, pat_arena)
    ELSE [a |-> Append(pat_arena, pat_arena[pat]),
          vec |-> Append(vec, Len(pat_arena) + 1)]

\* The inner fn expand of PatIdExt::expand_or_pat.
expand(pat, vec, pat_arena) ==
    IF pat_arena[pat].kind = "Or"
    THEN expand_pats(pat_arena[pat].subs, 1, vec, pat_arena)
    ELSE [a |-> pat_arena, vec |-> Append(vec, pat)]

\* Its loop over the alternatives without the recursion into each.
expand_pats_unnested(pats, i, vec, pat_arena) ==
    [a |-> pat_arena \o pats,
     vec |-> vec \o [k \in 1..Len(pats) |-> Len(pat_arena) + k]]

\* Its loop over the alternatives: clone into the arena, then recurse.
expand_pats(pats, i, vec, pat_arena) ==
    IF i > Len(pats) THEN [a |-> pat_arena, vec |-> vec]
    ELSE LET Rest(r) == expand_pats(pats, i + 1, r.vec, r.a)
         IN Rest(expand(Len(pat_arena) + 1, vec, Append(pat_arena, pats[i])))

\* PatIdExt::expand_or_pat
expand_or_pat(pat, a) == expand(pat, <<>>, a)

\* PatStack::expand_or_pat with the rows in reverse order.
PatStack_expand_or_pat_reversed(row, a) ==
    LET Rows(r) == [a |-> r.a,
                    rows |-> Rev([i \in 1..Len(r.vec) |-> <<r.vec[i]>> \o Tail(row)])]
    IN Rows(expand_or_pat(Head(row), a))

\* PatStack::expand_or_pat: one row per alternative, the other columns verbatim.
PatStack_expand_or_pat(row, a) ==
    LET Rows(r) == [a |-> r.a,
                    rows |-> [i \in 1..Len(r.vec) |-> <<r.vec[i]>> \o Tail(row)]]
    IN Rows(expand_or_pat(Head(row), a))

\* PatStack::head_ctor
head_ctor(row, a) == from_pat(a[Head(row)])

\* PatStack::pop_head_constructor that drops the head without its arguments.
pop_head_constructor_drops_fields(row, ctor_wild_subpatterns, a) ==
    [a |-> a, row |-> Tail(row)]

\* PatStack::pop_head_constructor
pop_head_constructor(row, ctor_wild_subpatterns, a) ==
    LET Popped(r) == [a |-> r.a, row |-> r.ids \o Tail(row)]
    IN Popped(replace_with_pattern_arguments(ctor_wild_subpatterns, Head(row), a))

\* Matrix::push without the or-pattern expansion.
Matrix_push_unexpanded(m, row, a) == [a |-> a, m |-> Append(m, row)]

\* Matrix::push
Matrix_push(m, row, a) ==
    IF row # <<>> /\ is_or_pat(Head(row), a)
    THEN LET Pushed(r) == [a |-> r.a, m |-> m \o r.rows]
         IN Pushed(PatStack_expand_or_pat(row, a))
    ELSE [a |-> a, m |-> Append(m, row)]

\* Matrix::head_ctors that stops after the first row.
head_ctors_first_row(m, a) ==
    [i \in 1..(IF m = <<>> THEN 0 ELSE 1) |-> head_ctor(m[i], a)]

\* Matrix::head_ctors
head_ctors(m, a) == [i \in 1..Len(m) |-> head_ctor(m[i], a)]

RECURSIVE from_iter(_, _, _, _, _, _)
\* Matrix::from_iter over the lazy filter/map of specialize_constructor: row i
\* is tested, popped and pushed before row i + 1 is looked at.
from_iter(m, i, ctor, ctor_wild_subpatterns, acc, a) ==
    IF i > Len(m) THEN [a |-> a, m |-> acc]
    ELSE IF is_covered_by(ctor, head_ctor(m[i], a))
    THEN LET Rest(q) == from_iter(m, i + 1, ctor, ctor_wild_subpatterns, q.m, q.a)
             Pushed(p) == Rest(Matrix_push(acc, p.row, p.a))
         IN Pushed(pop_head_constructor(m[i], ctor_wild_subpatterns, a))
    ELSE from_iter(m, i + 1, ctor, ctor_wild_subpatterns, acc, a)

\* Matrix::specialize_constructor that looks at the first row only.
specialize_first_row(m, ctor, ctor_wild_subpatterns, a) ==
    from_iter(SubSeq(m, 1, IF m = <<>> THEN 0 ELSE 1), 1, ctor,
              ctor_wild_subpatterns, <<>>, a)

\* Matrix::specialize_constructor
specialize_constructor(m, ctor, ctor_wild_subpatterns, a) ==
    from_iter(m, 1, ctor, ctor_wild_subpatterns, <<>>, a)

----------------------------------------------------------------------------
(* SubPatSet.  Keys are 0-based, as in the FxHashMap<usize, SubPatSet>.     *)
(* The tag "Bug" stands for a panic!("bug") raised while computing the set. *)

SubPatSet(tag, subpats, alt_count, pat) ==
    [tag |-> tag, subpats |-> subpats, alt_count |-> alt_count, pat |-> pat]

\* SubPatSet::empty
Empty == SubPatSet("Empty", EmptyMap, 0, 0)

\* SubPatSet::full
Full == SubPatSet("Full", EmptyMap, 0, 0)

BugSet == SubPatSet("Bug", EmptyMap, 0, 0)

Seq_(subpats) == SubPatSet("Seq", subpats, 0, 0)

Alt(subpats, alt_count, pat) == SubPatSet("Alt", subpats, alt_count, pat)

RECURSIVE is_empty(_)
\* SubPatSet::is_empty
is_empty(s) ==
    CASE s.tag = "Empty" -> TRUE
      [] s.tag = "Full" -> FALSE
      [] s.tag = "Seq" -> \E i \in DOMAIN s.subpats : is_empty(s.subpats[i])
      [] s.tag = "Alt" -> \A i \in DOMAIN s.subpats : is_empty(s.subpats[i])
      [] OTHER -> FALSE

RECURSIVE is_full(_)
\* SubPatSet::is_full
is_full(s) ==
    CASE s.tag = "Empty" -> FALSE
      [] s.tag = "Full" -> TRUE
      [] s.tag = "Seq" -> \A i \in DOMAIN s.subpats : is_full(s.subpats[i])
      [] s.tag = "Alt" ->
            /\ Cardinality(DOMAIN s.subpats) = s.alt_count
            /\ \A i \in DOMAIN s.subpats : is_full(s.subpats[i])
      [] OTHER -> FALSE

\* A panic raised while a child set was computed unwinds through the parent.
Unwind(s) ==
    IF \E i \in DOMAIN s.subpats : s.subpats[i].tag = "Bug" THEN BugSet ELSE s

\* SubPatSet::union that only looks at `other` when `self` is empty.
union_keeps_self(self, other) == IF is_empty(self) THEN other ELSE self

\* SubPatSet::union without the test of `self.is_full()`.
union_forgets_full(self, other) == IF is_empty(other) THEN self ELSE other

RECURSIVE union(_, _)
\* SubPatSet::union: the new value of `self`.
union(self, other) ==
    IF self.tag = "Bug" \/ other.tag = "Bug" THEN BugSet
    ELSE IF is_full(self) \/ is_empty(other) THEN self
    ELSE IF is_empty(self) THEN other
    ELSE IF is_full(other) THEN Full
    ELSE
      LET \* Seq: full entries are dropped.
          SeqOf(u) == Unwind(Seq_(Restrict(u, {i \in DOMAIN u : ~is_full(u[i])})))
          \* Alt: empty entries are dropped; the entries only `other` has are
          \* taken as they are.
          AltOf(u) ==
            Unwind(Alt([i \in {k \in DOMAIN u : ~is_empty(u[k])}
                              \cup (DOMAIN other.subpats \ DOMAIN u) |->
                          IF i \in DOMAIN u THEN u[i] ELSE other.subpats[i]],
                       self.alt_count, self.pat))
          Collapse(merged) ==
            IF merged.tag # "Bug" /\ is_full(merged) THEN Full ELSE merged
      IN Collapse(
           CASE self.tag = "Seq" /\ other.tag = "Seq" ->
                  \* Missing entries count as full.
                  SeqOf([i \in DOMAIN self.subpats |->
                           union(self.subpats[i],
                                 IF i \in DOMAIN other.subpats
                                 THEN other.subpats[i] ELSE Full)])
             [] self.tag = "Alt" /\ other.tag = "Alt" ->
                  \* Missing entries count as empty.
                  AltOf([i \in DOMAIN self.subpats |->
                           union(self.subpats[i],
                                 IF i \in DOMAIN other.subpats
                                 THEN other.subpats[i] ELSE Empty)])
             [] OTHER -> BugSet)

\* SubPatSet::unspecialize that leaves every entry at its key.
unspecialize_unshifted(self, arity) == self

\* SubPatSet::unspecialize that inserts the first column's Seq even when it
\* has no entries.
unspecialize_keeps_first_col(self, arity) ==
    IF self.tag # "Seq" THEN self
    ELSE Seq_([k \in {i - arity + 1 : i \in {j \in DOMAIN self.subpats : j >= arity}}
                     \cup {0} |->
                 IF k = 0
                 THEN Seq_(Restrict(self.subpats,
                                    {i \in DOMAIN self.subpats : i < arity}))
                 ELSE self.subpats[k + arity - 1]])

\* SubPatSet::unspecialize
unspecialize(self, arity) ==
    CASE self.tag = "Full" -> Full
      [] self.tag = "Empty" -> Empty
      [] self.tag = "Seq" ->
           LET \* the keys below `arity` go to the first column's Seq, the
               \* others are shifted
               Build(first, later) ==
                 Seq_([k \in {i - arity + 1 : i \in later}
                             \cup (IF first # {} THEN {0} ELSE {}) |->
                         IF k = 0 /\ first # {}
                         THEN Seq_(Restrict(self.subpats, first))
                         ELSE self.subpats[k + arity - 1]])
           IN Build({i \in DOMAIN self.subpats : i < arity},
                    {i \in DOMAIN self.subpats : i >= arity})
      [] OTHER -> BugSet

\* SubPatSet::unsplit_or_pat that forgets the alternative.
unsplit_or_pat_forgetful(self, alt_id, alt_count, pat) == self

\* SubPatSet::unsplit_or_pat
unsplit_or_pat(self, alt_id, alt_count, pat) ==
    IF self.tag = "Bug" THEN BugSet
    ELSE IF is_empty(self) THEN Empty
    ELSE IF self.tag = "Alt" THEN BugSet
    ELSE
      LET Build(set_first_col, rest) ==
            Seq_([k \in DOMAIN rest \cup {0} |->
                    IF k = 0
                    THEN Alt([i \in {alt_id} |-> set_first_col], alt_count, pat)
                    ELSE rest[k]])
      IN Build(IF self.tag = "Seq" /\ 0 \in DOMAIN self.subpats
               THEN self.subpats[0] ELSE Full,
               IF self.tag = "Seq"
               THEN Restrict(self.subpats, DOMAIN self.subpats \ {0})
               ELSE EmptyMap)

RECURSIVE fill_subpats(_, _)
RECURSIVE fill_seq(_, _, _)
RECURSIVE fill_alt(_, _, _, _)
\* The inner fn fill_subpats of list_unreachable_subpatterns; `acc` holds the
\* arena, unreachable_pats and whether the Empty panic was hit.
fill_subpats(set, acc) ==
    CASE set.tag = "Full" -> acc
      [] set.tag = "Seq" -> fill_seq(set, SetToSeq(DOMAIN set.subpats), acc)
      [] set.tag = "Alt" ->
           LET Alts(e) == fill_alt(set, e.vec, 0, [acc EXCEPT !.a = e.a])
           IN Alts(expand_or_pat(set.pat, acc.a))
      [] OTHER -> [acc EXCEPT !.bug = TRUE]

\* Its loop over the entries of a Seq (here in ascending key order).
fill_seq(set, keys, acc) ==
    IF keys = <<>> \/ acc.bug THEN acc
    ELSE fill_seq(set, Tail(keys), fill_subpats(set.subpats[Head(keys)], acc))

\* Its loop `for i in 0..*alt_count` over the alternatives of an Alt.
fill_alt(set, expanded, i, acc) ==
    IF i >= set.alt_count \/ acc.bug THEN acc
    ELSE LET Visit(sub_set) ==
               IF is_empty(sub_set)
               THEN IF i + 1 > Len(expanded)
                    THEN [acc EXCEPT !.bug = TRUE]   \* index out of bounds
                    ELSE fill_alt(set, expanded, i + 1,
                                  [acc EXCEPT !.pats = Append(@, expanded[i + 1])])
               ELSE fill_alt(set, expanded, i + 1, fill_subpats(sub_set, acc))
         IN Visit(IF i \in DOMAIN set.subpats THEN set.subpats[i] ELSE Empty)

\* SubPatSet::list_unreachable_subpatterns without its tests of is_empty and
\* is_full.
list_unreachable_unchecked(self, a) ==
    fill_subpats(self, [a |-> a, some |-> TRUE, pats |-> <<>>, bug |-> FALSE])

\* SubPatSet::list_unreachable_subpatterns: `some` is FALSE for None.
list_unreachable_subpatterns(self, a) ==
    IF is_empty(self) THEN [a |-> a, some |-> FALSE, pats |-> <<>>, bug |-> FALSE]
    ELSE IF is_full(self) THEN [a |-> a, some |-> TRUE, pats |-> <<>>, bug |-> FALSE]
    ELSE fill_subpats(self, [a |-> a, some |-> TRUE, pats |-> <<>>, bug |-> FALSE])

----------------------------------------------------------------------------
(* Usefulness and Witness.  The kind "Bug" stands for a panic.             *)

NoWitnesses(subpats) ==
    [kind |-> IF subpats.tag = "Bug" THEN "Bug" ELSE "NoWitnesses",
     subpats |-> subpats, witnesses |-> <<>>]

WithWitnesses(ws) == [kind |-> "WithWitnesses", subpats |-> Empty, witnesses |-> ws]

BugU == NoWitnesses(BugSet)

\* Usefulness::new_useful that answers as new_not_useful does.
new_useful_never(preference) ==
    IF preference = "ConstructWitness" THEN WithWitnesses(<<>>)
    ELSE NoWitnesses(Empty)

\* Usefulness::new_useful
new_useful(preference) ==
    IF preference = "ConstructWitness" THEN WithWitnesses(<< <<>> >>)
    ELSE NoWitnesses(Full)

\* Usefulness::new_not_useful that answers as new_useful does.
new_not_useful_never(preference) ==
    IF preference = "ConstructWitness" THEN WithWitnesses(<< <<>> >>)
    ELSE NoWitnesses(Full)

\* Usefulness::new_not_useful that does not look at the preference.
new_not_useful_leaves_out(preference) == NoWitnesses(Empty)

\* Usefulness::new_not_useful
new_not_useful(preference) ==
    IF preference = "ConstructWitness" THEN WithWitnesses(<<>>)
    ELSE NoWitnesses(Empty)

\* Usefulness::extend that overwrites `self` with `other`.
extend_keeps_other(self, other) == other

\* Usefulness::extend: the new value of `self`.
extend(self, other) ==
    CASE self.kind = "WithWitnesses" /\ other.kind = "WithWitnesses" ->
           IF other.witnesses = <<>> THEN self
           ELSE IF self.witnesses = <<>> THEN other
           ELSE WithWitnesses(self.witnesses \o other.witnesses)
      [] self.kind = "NoWitnesses" /\ other.kind = "NoWitnesses" ->
           NoWitnesses(union(self.subpats, other.subpats))
      [] OTHER -> BugU

\* Usefulness::merge that returns after the first result.
merge_returns_at_once(ret) == TRUE

\* Usefulness::merge, the test after each extend: the fold returns early once
\* the accumulated NoWitnesses set is full (or a panic unwinds).
merge_returns(ret) ==
    \/ ret.kind = "Bug"
    \/ ret.kind = "NoWitnesses" /\ is_full(ret.subpats)

\* Usefulness::unsplit_or_pat
Usefulness_unsplit_or_pat(self, alt_id, alt_count, pat) ==
    IF self.kind = "NoWitnesses"
    THEN NoWitnesses(unsplit_or_pat(self.subpats, alt_id, alt_count, pat))
    ELSE BugU

\* Witness::apply_constructor without the `.rev()`.
Witness_apply_constructor_unreversed(witness, t, ctor, arity) ==
    [ok |-> Len(witness) >= arity,
     w |-> IF Len(witness) < arity THEN witness
           ELSE Append(SubSeq(witness, 1, Len(witness) - arity),
                       apply(ctor, t, SubSeq(witness, Len(witness) - arity + 1,
                                             Len(witness))))]

\* Witness::apply_constructor that copies the fields instead of draining them.
Witness_apply_constructor_undrained(witness, t, ctor, arity) ==
    [ok |-> Len(witness) >= arity,
     w |-> IF Len(witness) < arity THEN witness
           ELSE Append(witness,
                       apply(ctor, t, Rev(SubSeq(witness, Len(witness) - arity + 1,
                                                 Len(witness)))))]

\* Witness::apply_constructor; `ok` is FALSE when the drain range underflows.
Witness_apply_constructor(witness, t, ctor, arity) ==
    LET len == Len(witness)
    IN IF len < arity THEN [ok |-> FALSE, w |-> witness]
       ELSE LET pats == Rev(SubSeq(witness, len - arity + 1, len))
            IN [ok |-> TRUE,
                w |-> Append(SubSeq(witness, 1, len - arity), apply(ctor, t, pats))]

RECURSIVE missing_patterns(_, _, _, _, _)
\* The new_patterns of Usefulness::apply_constructor: for each missing
\* constructor, the constructor applied to wildcards.
missing_patterns(t, missing, i, acc, a) ==
    IF i > Len(missing) THEN [a |-> a, pats |-> acc]
    ELSE LET Rest(f) ==
               missing_patterns(t, missing, i + 1,
                                Append(acc, apply(missing[i], t,
                                                  [k \in 1..Len(f.ids) |-> f.a[f.ids[k]]])),
                                f.a)
         IN Rest(Fields_wildcards(missing[i], a))

\* Usefulness::apply_constructor: the arena and the un-specialized usefulness.
Usefulness_apply_constructor(self, t, m, ctor, ctor_wild_subpatterns, a) ==
    CASE self.kind = "WithWitnesses" /\ self.witnesses = <<>> -> [a |-> a, u |-> self]
      [] self.kind = "WithWitnesses" /\ self.witnesses # <<>> ->
           IF ctor = Missing
           THEN LET \* one witness per (witness, missing constructor) pair
                    Cross(np, ws, n) ==
                      [a |-> np.a,
                       u |-> WithWitnesses(
                               [k \in 1..(Len(ws) * n) |->
                                  Append(ws[((k - 1) \div n) + 1],
                                         np.pats[((k - 1) % n) + 1])])]
                    New(np) == Cross(np, self.witnesses, Len(np.pats))
                IN New(missing_patterns(t, iter_missing(t, head_ctors(m, a)),
                                        1, <<>>, a))
           ELSE LET All(r) ==
                      [a |-> a,
                       u |-> IF \E k \in DOMAIN r : ~r[k].ok THEN BugU
                             ELSE WithWitnesses([k \in DOMAIN r |-> r[k].w])]
                IN All([k \in 1..Len(self.witnesses) |->
                          Witness_apply_constructor(self.witnesses[k], t, ctor,
                                                    Len(ctor_wild_subpatterns))])
      [] self.kind = "NoWitnesses" ->
           [a |-> a,
            u |-> NoWitnesses(unspecialize(self.subpats, Len(ctor_wild_subpatterns)))]
      [] OTHER -> [a |-> a, u |-> BugU]

----------------------------------------------------------------------------
(* is_useful.  A result carries the arena, the Usefulness and, as a ghost,  *)
(* the record of every call made; `from` is ghost too: how the caller       *)
(* reached this call.                                                       *)

Ret(a, u, cs) == [a |-> a, u |-> u, calls |-> cs]

Call(m, v, pref, g, u, from) ==
    [m |-> m, v |-> v, pref |-> pref, g |-> g, u |-> u,
     via |-> from.via, idx |-> from.idx, pm |-> from.pm, pv |-> from.pv]

TopLevel == [via |-> "top", idx |-> 0, pm |-> <<>>, pv |-> <<>>]

\* The or-pattern path without its push.
push_alternative_never(m, v, is_under_guard, a) == [a |-> a, m |-> m]

\* The or-pattern path's push without the guard test.
push_alternative_always(m, v, is_under_guard, a) == Matrix_push(m, v, a)

\* The or-pattern path's `if !is_under_guard { matrix.push(v, cx) }`.
push_alternative(m, v, is_under_guard, a) ==
    IF ~is_under_guard THEN Matrix_push(m, v, a) ELSE [a |-> a, m |-> m]

RECURSIVE is_useful(_, _, _, _, _, _, _)
RECURSIVE or_path(_, _, _, _, _, _, _, _, _, _, _)
RECURSIVE ctor_path(_, _, _, _, _, _, _, _, _, _)

\* The or-pattern path: the lazy map over the alternatives, folded by merge.
or_path(a, mx, vs, i, v_head, ret, pref, g, cs, pm, pv) ==
    IF i > Len(vs) THEN Ret(a, ret, cs)
    ELSE
      LET Merged(r, p, ret2) ==
            IF merge_returns(ret2) THEN Ret(p.a, ret2, cs \cup r.calls)
            ELSE or_path(p.a, p.m, vs, i + 1, v_head, ret2, pref, g,
                         cs \cup r.calls, pm, pv)
          Pushed(r, p) ==
            Merged(r, p,
                   extend(ret, Usefulness_unsplit_or_pat(r.u, i - 1, Len(vs), v_head)))
          Called(r) == Pushed(r, push_alternative(mx, vs[i], g, r.a))
      IN Called(is_useful(a, mx, vs[i], pref, g, FALSE,
                          [via |-> "or", idx |-> i - 1, pm |-> pm, pv |-> pv]))

\* The constructor path: the lazy map over the split constructors, folded by
\* merge.
ctor_path(a, start_matrix, v, t, split_ctors, i, ret, pref, g, cs) ==
    IF i > Len(split_ctors) THEN Ret(a, ret, cs)
    ELSE
      LET Merged(r, ac, ret2) ==
            IF merge_returns(ret2) THEN Ret(ac.a, ret2, cs \cup r.calls)
            ELSE ctor_path(ac.a, start_matrix, v, t, split_ctors, i + 1, ret2,
                           pref, g, cs \cup r.calls)
          Applied(r, ac) == Merged(r, ac, extend(ret, ac.u))
          Called(w, r) ==
            Applied(r, Usefulness_apply_constructor(r.u, t, start_matrix,
                                                    split_ctors[i], w.ids, r.a))
          Popped(w, sm, pv) ==
            Called(w, is_useful(pv.a, sm.m, pv.row, pref, g, FALSE,
                                [via |-> "ctor", idx |-> i - 1,
                                 pm |-> start_matrix, pv |-> v]))
          Specialized(w, sm) == Popped(w, sm, pop_head_constructor(v, w.ids, sm.a))
          Wild(w) ==
            Specialized(w, specialize_constructor(start_matrix, split_ctors[i],
                                                  w.ids, w.a))
      IN Wild(Fields_wildcards(split_ctors[i], a))

\* is_useful that takes every row for the base case.
is_useful_no_recursion(a, m, v, pref, g, top, from) ==
    LET Done(u) == Ret(a, u, {Call(m, v, pref, g, u, from)})
    IN Done(IF m = <<>> THEN new_useful(pref) ELSE new_not_useful(pref))

\* is_useful(cx, matrix, v, witness_preference, is_under_guard, is_top_level)
is_useful(a, m, v, pref, g, top, from) ==
    LET Done(r) == Ret(r.a, r.u, r.calls \cup {Call(m, v, pref, g, r.u, from)})
        Expanded(e) == or_path(e.a, m, e.rows, 1, Head(v), new_not_useful(pref),
                               pref, g, {}, m, v)
        \* the column's type: of the first row's head, else of v's head
        Typed(t) == ctor_path(a, m, v, t,
                              split(head_ctor(v, a), t, head_ctors(m, a)),
                              1, new_not_useful(pref), pref, g, {})
    IN Done(IF v = <<>>
            THEN Ret(a, IF m = <<>> THEN new_useful(pref)
                        ELSE new_not_useful(pref), {})
            ELSE IF \E k \in 1..Len(m) : Len(m[k]) # Len(v)
            THEN Ret(a, BugU, {})            \* the assert! fails
            ELSE IF is_or_pat(Head(v), a)
            THEN Expanded(PatStack_expand_or_pat(v, a))
            ELSE Typed(IF m # <<>> THEN a[m[1][1]].ty ELSE a[v[1]].ty))

----------------------------------------------------------------------------
(* The driver compute_match_usefulness.                                    *)

Reachable(pats) == [tag |-> "Reachable", pats |-> pats]

Unreachable == [tag |-> "Unreachable", pats |-> <<>>]

\* The driver without its push.
push_arm_never(m, v, has_guard, a) == [a |-> a, m |-> m]

\* The driver's push without the guard test.
push_arm_always(m, v, has_guard, a) == Matrix_push(m, v, a)

\* The driver's `if !arm.has_guard { matrix.push(v, cx) }`.
push_arm(m, v, has_guard, a) ==
    IF ~has_guard THEN Matrix_push(m, v, a) ELSE [a |-> a, m |-> m]

\* The body of the closure mapped over the arms: is_useful, the push, and the
\* conversion to a Reachability.
arm_step(a, m, arm) ==
    LET Result(r, p, empty, l, bug) ==
          [a |-> IF empty \/ bug THEN p.a ELSE l.a,
           m |-> p.m, u |-> r.u, calls |-> r.calls, bug |-> bug,
           reach |-> IF empty \/ bug THEN Unreachable ELSE Reachable(l.pats)]
        Listed(r, p, empty, l) ==
          Result(r, p, empty, l,
                 \/ r.u.kind # "NoWitnesses"
                 \/ ~empty /\ (l.bug \/ ~l.some))
        Pushed(r, p) ==
          Listed(r, p, r.u.kind = "NoWitnesses" /\ is_empty(r.u.subpats),
                 list_unreachable_subpatterns(r.u.subpats, p.a))
        Called(r) == Pushed(r, push_arm(m, <<arm.pat>>, arm.has_guard, r.a))
    IN Called(is_useful(a, m, <<arm.pat>>, "LeaveOutWitness", arm.has_guard,
                        TRUE, TopLevel))

\* The wildcard probe: the witnesses of `_` against the final matrix, each
\* through Witness::single_pattern.
probe_step(a, m, t) ==
    LET Result(r, bug) ==
          [a |-> r.a, u |-> r.u, calls |-> r.calls, bug |-> bug,
           witnesses |-> IF bug THEN <<>>
                         ELSE [k \in 1..Len(r.u.witnesses) |-> r.u.witnesses[k][1]]]
        Called(r) ==
          Result(r, \/ r.u.kind # "WithWitnesses"
                    \/ \E k \in 1..Len(r.u.witnesses) : Len(r.u.witnesses[k]) # 1)
        Wild(w) == Called(is_useful(w.a, m, w.ids, "ConstructWitness", FALSE,
                                    TRUE, TopLevel))
    IN Wild(alloc_pats(a, <<wildcard_from_ty(t)>>))

RECURSIVE run_arms(_, _, _, _, _)
\* The iteration over the arms, as a function of the input.
run_arms(a, m, arms_, i, acc) ==
    IF i > Len(arms_) THEN [a |-> a, m |-> m, arm_usefulness |-> acc, bug |-> FALSE]
    ELSE LET Rest(s) ==
               IF s.bug
               THEN [a |-> s.a, m |-> s.m, arm_usefulness |-> acc, bug |-> TRUE]
               ELSE run_arms(s.a, s.m, arms_, i + 1,
                             Append(acc, [arm |-> arms_[i], reach |-> s.reach]))
         IN Rest(arm_step(a, m, arms_[i]))

\* compute_match_usefulness as a function of the arena and the arms: the
\* UsefulnessReport, the final arena, and whether the analysis panicked.
compute_match_usefulness(t, a, arms_) ==
    LET Report(r, q) ==
          IF r.bug
          THEN [arm_usefulness |-> r.arm_usefulness, witnesses |-> <<>>,
                a |-> r.a, bug |-> TRUE]
          ELSE [arm_usefulness |-> r.arm_usefulness, witnesses |-> q.witnesses,
                a |-> q.a, bug |-> q.bug]
        Arms(r) == Report(r, probe_step(r.a, r.m, t))
    IN Arms(run_arms(a, <<>>, arms_, 1, <<>>))

----------------------------------------------------------------------------
(* The inputs: lowered arm patterns over the two scrutinee types.          *)

Types == {"OptBool", "Pair", "U8"}

PTrue == PVariant("Bool", "true", <<>>)

PFalse == PVariant("Bool", "false", <<>>)

PNone == PVariant("OptBool", "None", <<>>)

PSome(b) == PVariant("OptBool", "Some", <<b>>)

PPair(x, y) == PVariant("Pair", "Pair", <<x, y>>)

\* bool patterns: the leaves, and the or-patterns true | true, true | false
BoolLeaves == {wildcard_from_ty("Bool"), PTrue, PFalse}

BoolOrs == {POr("Bool", <<PTrue, y>>) : y \in {PTrue, PFalse}}

\* patterns of {None, Some(bool)} without a top-level or-pattern
OptLeaves == {wildcard_from_ty("OptBool"), PNone}
             \cup {PSome(b) : b \in BoolLeaves \cup BoolOrs}

\* top-level or-patterns p1 | p2; p2 may hold an or-pattern or be one
OptOrs == {POr("OptBool", <<x, y>>) :
             x \in {PNone, PSome(PTrue), PSome(wildcard_from_ty("Bool"))},
             y \in {PNone, PSome(PTrue), PSome(POr("Bool", <<PTrue, PFalse>>)),
                    POr("OptBool", <<PNone, PSome(PTrue)>>)}}

\* patterns of (bool, bool)
PairLeaves == {wildcard_from_ty("Pair")}
              \cup {PPair(x, y) :
                      x \in BoolLeaves \cup {POr("Bool", <<PTrue, PFalse>>)},
                      y \in {wildcard_from_ty("Bool"), PTrue,
                             POr("Bool", <<PTrue, PTrue>>)}}

\* patterns of u8: ranges that overlap, nest and leave a gap at the top
U8Pats == {wildcard_from_ty("U8"), PRange(0, 127), PRange(64, 200),
           PRange(64, 100),
           POr("U8", <<PRange(0, 127), PRange(100, U8Max)>>)}

ArmPats(t) ==
    CASE t = "OptBool" -> OptLeaves \cup OptOrs
      [] t = "Pair" -> PairLeaves
      [] t = "U8" -> U8Pats

RECURSIVE Label(_, _)
\* The ghost labels of a lowered pattern: each node's path from the arm.
Label(p, path) ==
    [p EXCEPT !.node = path,
              !.subs = [i \in DOMAIN p.subs |-> Label(p.subs[i], Append(path, i))]]

NoCall == [kind |-> "None", subpats |-> Empty, witnesses |-> <<>>]

Init ==
    /\ ty \in Types
    /\ \E n \in 0..MaxArms :
         \E f \in [1..n -> ArmPats(ty) \X BOOLEAN] :
            /\ arena = [i \in 1..n |-> Label(f[i][1], <<i>>)]
            /\ arms = [i \in 1..n |-> [pat |-> i, has_guard |-> f[i][2]]]
    /\ matrix = <<>>
    /\ next_arm = 1
    /\ arm_usefulness = <<>>
    /\ witnesses = <<>>
    /\ usefulness = NoCall
    /\ calls = {}
    /\ pc = "arms"
    /\ sets = <<>>
    /\ op = "none"
    /\ out = <<>>
    /\ adjustment = <<>>

\* One iteration of the driver's map over the arms.
Arm ==
    /\ pc = "arms"
    /\ next_arm <= Len(arms)
    /\ \E s \in {arm_step(arena, matrix, arms[next_arm])} :
          /\ arena' = s.a
          /\ matrix' = s.m
          /\ usefulness' = s.u
          /\ calls' = s.calls
          /\ pc' = IF s.bug THEN "panic" ELSE "arms"
          /\ next_arm' = IF s.bug THEN next_arm ELSE next_arm + 1
          /\ arm_usefulness' =
               IF s.bug THEN arm_usefulness
               ELSE Append(arm_usefulness,
                           [arm |-> arms[next_arm], reach |-> s.reach])
    /\ UNCHANGED <<ty, arms, witnesses, sets, op, out, adjustment>>

\* The exhaustiveness probe and the construction of the report.
Probe ==
    /\ pc = "arms"
    /\ next_arm > Len(arms)
    /\ \E s \in {probe_step(arena, matrix, ty)} :
          /\ arena' = s.a
          /\ usefulness' = s.u
          /\ calls' = s.calls
          /\ witnesses' = s.witnesses
          /\ pc' = IF s.bug THEN "panic" ELSE "done"
    /\ UNCHANGED <<ty, arms, matrix, next_arm, arm_usefulness, sets, op, out, adjustment>>

Next == Arm \/ Probe

Spec == Init /\ [][Next]_vars

----------------------------------------------------------------------------
(* The meaning of patterns: the values of a type and `matches!(v, p)`.      *)

\* The inhabitants of a closed type: constructor applications, or numbers.
Values(t) ==
    LET B == {[name |-> "true", args |-> <<>>], [name |-> "false", args |-> <<>>]}
    IN CASE t = "Bool" -> B
         [] t = "OptBool" ->
              {[name |-> "None", args |-> <<>>]}
              \cup {[name |-> "Some", args |-> <<b>>] : b \in B}
         [] t = "Pair" -> {[name |-> "Pair", args |-> <<x, y>>] : x, y \in B}
         [] t = "U8" -> 0..U8Max

RECURSIVE Matches(_, _)
\* matches!(val, p)
Matches(val, p) ==
    CASE p.kind = "Wild" -> TRUE
      [] p.kind = "Or" -> \E i \in DOMAIN p.subs : Matches(val, p.subs[i])
      [] p.kind = "Range" -> val \in p.lo..p.hi
      [] OTHER -> /\ p.name = val.name
                  /\ \A i \in DOMAIN p.subs : Matches(val.args[i], p.subs[i])

\* The pattern of arm j of the input.
ArmPat(j) == arena[arms[j].pat]

\* val is matched by a non-guarded arm before arm j.
MatchedBefore(val, j) ==
    \E k \in 1..(j - 1) : ~arms[k].has_guard /\ Matches(val, ArmPat(k))

\* val is matched by some non-guarded arm.
MatchedByArms(val) == MatchedBefore(val, Len(arms) + 1)

----------------------------------------------------------------------------
(* Properties of the report.                                               *)

\* C1: an arm is reported Unreachable exactly when every value its pattern
\* matches is matched by some non-guarded arm before it.
ReachabilityCorrect ==
    \A j \in 1..Len(arm_usefulness) :
       (arm_usefulness[j].reach.tag = "Unreachable")
       <=> \A val \in Values(ty) : Matches(val, ArmPat(j)) => MatchedBefore(val, j)

\* An arm after a guarded arm and a non-guarded arm has been reported
\* Unreachable, and another arm Reachable.
ReachabilityCorrectWitness ==
    /\ pc = "done"
    /\ \E j, k \in 1..Len(arm_usefulness) :
          /\ arm_usefulness[j].reach.tag = "Unreachable"
          /\ arm_usefulness[k].reach.tag = "Reachable"
          /\ ~arms[k].has_guard

\* C2: every reported witness matches a value, and no value it matches is
\* matched by a non-guarded arm.
WitnessesSound ==
    pc = "done" =>
      \A k \in 1..Len(witnesses) :
         /\ \E val \in Values(ty) : Matches(val, witnesses[k])
         /\ \A val \in Values(ty) :
               Matches(val, witnesses[k]) => ~MatchedByArms(val)

\* A report with a witness that is not the wildcard, for a match with a
\* non-guarded arm.
WitnessesSoundWitness ==
    /\ pc = "done"
    /\ \E j \in 1..Len(arms) : ~arms[j].has_guard
    /\ \E k \in 1..Len(witnesses) : witnesses[k].kind = "Variant"

\* C3: when the report has no witness, every value of the scrutinee's type is
\* matched by some non-guarded arm.
WitnessesComplete ==
    (pc = "done" /\ witnesses = <<>>) =>
      \A val \in Values(ty) : MatchedByArms(val)

\* A report without witnesses whose match has two arms, none of them a
\* wildcard.
WitnessesCompleteWitness ==
    /\ pc = "done"
    /\ witnesses = <<>>
    /\ Len(arms) = 2
    /\ \A j \in 1..Len(arms) : ArmPat(j).kind # "Wild"

----------------------------------------------------------------------------
(* The alternatives of the or-patterns of an arm.                          *)

RECURSIVE FlatAlts(_)
RECURSIVE FlatFrom(_, _)
\* The alternatives of a pattern, nested or-patterns flattened, in pre-order;
\* a pattern that is no or-pattern is its own single alternative.
FlatAlts(p) == IF p.kind = "Or" THEN FlatFrom(p.subs, 1) ELSE <<p>>

FlatFrom(subs, i) ==
    IF i > Len(subs) THEN <<>> ELSE FlatAlts(subs[i]) \o FlatFrom(subs, i + 1)

RECURSIVE At(_, _)
\* The sub-pattern of p at a path of child indices.
At(p, path) == IF path = <<>> THEN p ELSE At(p.subs[Head(path)], Tail(path))

RECURSIVE Plug(_, _, _)
\* p with the sub-pattern at a path replaced by q.
Plug(p, path, q) ==
    IF path = <<>> THEN q
    ELSE [p EXCEPT !.subs[Head(path)] = Plug(p.subs[Head(path)], Tail(path), q)]

RECURSIVE Alternatives(_, _, _, _)
\* Every alternative of every or-pattern of `root` at or below `pos`, with
\*   node:    its ghost label,
\*   pat:     the arm's pattern with the alternative in the or-pattern's place
\*            (and each enclosing or-pattern replaced by the alternative that
\*            holds it),
\*   same:    likewise for the earlier alternatives of the same or-pattern,
\*   earlier: `same`, and the earlier alternatives of the enclosing or-patterns,
\*   encl:    the labels of the enclosing alternatives.
Alternatives(root, pos, encl, earlier) ==
    LET Of(n) ==
          IF n.kind = "Or"
          THEN LET In(alts) ==
                     LET Before(k) == {Plug(root, pos, alts[j]) : j \in 1..(k - 1)}
                     IN UNION {
                          {[node |-> alts[k].node, pat |-> Plug(root, pos, alts[k]),
                            same |-> Before(k), earlier |-> earlier \cup Before(k),
                            encl |-> encl]}
                          \cup Alternatives(Plug(root, pos, alts[k]), pos,
                                            encl \cup {alts[k].node},
                                            earlier \cup Before(k))
                          : k \in 1..Len(alts)}
               IN In(FlatAlts(n))
          ELSE UNION {Alternatives(root, Append(pos, i), encl, earlier)
                      : i \in DOMAIN n.subs}
    IN Of(At(root, pos))

\* The labels of the sub-patterns listed as unreachable for arm j.
ListedNodes(j) ==
    {arena[arm_usefulness[j].reach.pats[k]].node
       : k \in 1..Len(arm_usefulness[j].reach.pats)}

\* Every value matched by pat is matched by a non-guarded arm before arm j or
\* by a pattern of E.
Covered(j, pat, E) ==
    \A val \in Values(ty) :
       Matches(val, pat) => \/ MatchedBefore(val, j)
                            \/ \E e \in E : Matches(val, e)

\* The non-guarded arms reported Reachable.
ReachableArms ==
    {j \in 1..Len(arm_usefulness) :
       ~arms[j].has_guard /\ arm_usefulness[j].reach.tag = "Reachable"}

\* C4, as stated: for a non-guarded arm reported Reachable, an alternative of
\* one of its or-patterns is listed exactly when every value it matches in its
\* position is matched by an earlier non-guarded arm or by an earlier
\* alternative of the same or-pattern.
UnreachableAlternativesAsStated ==
    \A j \in ReachableArms :
       \A r \in Alternatives(ArmPat(j), <<>>, {}, {}) :
          r.node \in ListedNodes(j) <=> Covered(j, r.pat, r.same)

\* C4, amended: the listed sub-patterns are alternatives, each once; an
\* alternative is listed exactly when no alternative enclosing it is listed
\* and every value it matches in its position is matched by an earlier
\* non-guarded arm, by an earlier alternative of the same or-pattern, or by an
\* earlier alternative of an or-pattern enclosing it.
UnreachableAlternatives ==
    \A j \in ReachableArms :
       LET alts == Alternatives(ArmPat(j), <<>>, {}, {})
       IN /\ ListedNodes(j) \subseteq {r.node : r \in alts}
          /\ Cardinality(ListedNodes(j)) = Len(arm_usefulness[j].reach.pats)
          /\ \A r \in alts :
                r.node \in ListedNodes(j)
                <=> /\ r.encl \cap ListedNodes(j) = {}
                    /\ Covered(j, r.pat, r.earlier)

\* A Reachable non-guarded arm lists an alternative of an or-pattern that
\* lies inside an alternative of another, and does not list its sibling.
UnreachableAlternativesWitness ==
    \E j \in ReachableArms :
       \E r, q \in Alternatives(ArmPat(j), <<>>, {}, {}) :
          /\ r.encl # {}
          /\ r.encl = q.encl
          /\ r.node \in ListedNodes(j)
          /\ q.node \notin ListedNodes(j)

----------------------------------------------------------------------------
(* Relations between the reports of related inputs.                        *)

\* The arena as it was given to the driver: one pattern per arm.
InitialArena == SubSeq(arena, 1, Len(arms))

\* The verdicts of a list of (arm, reachability) entries.
Verdicts(entries) == [k \in 1..Len(entries) |-> entries[k].reach.tag]

\* The labels of the sub-patterns an entry lists, read in arena a.
EntryNodes(entry, a) == {a[entry.reach.pats[k]].node : k \in 1..Len(entry.reach.pats)}

\* C5: the report for the input without its guarded arms has the verdicts
\* that the non-guarded arms have in the report for the whole input, and the
\* same list of witnesses.
GuardsTransparent ==
    pc = "done" =>
      LET Same(r) ==
            /\ ~r.bug
            /\ r.witnesses = witnesses
            /\ Verdicts(r.arm_usefulness)
                 = Verdicts(SelectSeq(arm_usefulness, LAMBDA e : ~e.arm.has_guard))
      IN Same(compute_match_usefulness(
                ty, InitialArena, SelectSeq(arms, LAMBDA x : ~x.has_guard)))

\* A report for a guarded arm followed by a non-guarded arm that matches
\* nothing the guarded arm's pattern does not match.
GuardsTransparentWitness ==
    /\ pc = "done"
    /\ Len(arms) = 2
    /\ arms[1].has_guard
    /\ ~arms[2].has_guard
    /\ \A val \in Values(ty) : Matches(val, ArmPat(2)) => Matches(val, ArmPat(1))
    /\ witnesses # <<>>

\* The arms a :: A, with the pattern of a allocated after those of A.
Prepended(g) == <<[pat |-> Len(arms) + 1, has_guard |-> g]>> \o arms

\* C6: every arm reported Unreachable stays Unreachable in the report for the
\* input with one more arm in front, whatever that arm is.
UnreachableMonotone ==
    (pc = "done" /\ \E j \in 1..Len(arms) : arm_usefulness[j].reach.tag = "Unreachable")
    => \A p \in ArmPats(ty), g \in BOOLEAN :
         LET Kept(r) ==
               /\ ~r.bug
               /\ \A j \in 1..Len(arms) :
                     arm_usefulness[j].reach.tag = "Unreachable"
                     => r.arm_usefulness[j + 1].reach.tag = "Unreachable"
         IN Kept(compute_match_usefulness(
                   ty, Append(InitialArena, Label(p, <<0>>)), Prepended(g)))

\* A report with an Unreachable arm whose pattern is matched only thanks to
\* two earlier arms together.
UnreachableMonotoneWitness ==
    /\ pc = "done"
    /\ \E j \in 1..Len(arms) :
          /\ arm_usefulness[j].reach.tag = "Unreachable"
          /\ ArmPat(j).kind # "Wild"
          /\ \E k \in 1..(j - 1) : ArmPat(k).kind # "Wild"

\* The arms with the or-pattern arm i replaced by two arms, whose patterns
\* are allocated after those of the input.
SplitArms(i) ==
    SubSeq(arms, 1, i - 1)
    \o <<[pat |-> Len(arms) + 1, has_guard |-> FALSE],
         [pat |-> Len(arms) + 2, has_guard |-> FALSE]>>
    \o SubSeq(arms, i + 1, Len(arms))

\* The non-guarded arms whose pattern is a top-level or-pattern p1 | p2.
OrArms ==
    {i \in 1..Len(arms) :
       ~arms[i].has_guard /\ ArmPat(i).kind = "Or" /\ Len(ArmPat(i).subs) = 2}

\* Alternative k of or-pattern arm i is listed as unreachable: the arm is
\* Reachable and lists pk, or every alternative of pk when pk is itself an
\* or-pattern.
AltListed(i, k) ==
    /\ arm_usefulness[i].reach.tag = "Reachable"
    /\ \A q \in {FlatAlts(ArmPat(i).subs[k])[n]
                  : n \in 1..Len(FlatAlts(ArmPat(i).subs[k]))} :
          q.node \in ListedNodes(i)

\* C7: splitting the non-guarded arm p1 | p2 into the arms p1, p2 keeps the
\* list of witnesses and the reachability of every other arm; the or-arm is
\* Unreachable iff both split arms are; alternative k is listed iff split arm
\* k is Unreachable and the other split arm is Reachable.
OrSplitEquivalent ==
    pc = "done" =>
      \A i \in OrArms :
         LET Same(r) ==
               LET splitArm(k) == r.arm_usefulness[i + k - 1].reach.tag
                   otherArm(j) == r.arm_usefulness[IF j < i THEN j ELSE j + 1]
               IN /\ ~r.bug
                  /\ r.witnesses = witnesses
                  /\ \A j \in 1..Len(arms) \ {i} :
                        /\ otherArm(j).reach.tag = arm_usefulness[j].reach.tag
                        /\ EntryNodes(otherArm(j), r.a) = ListedNodes(j)
                  /\ arm_usefulness[i].reach.tag = "Unreachable"
                     <=> splitArm(1) = "Unreachable" /\ splitArm(2) = "Unreachable"
                  /\ \A k \in 1..2 :
                        AltListed(i, k)
                        <=> splitArm(k) = "Unreachable" /\ splitArm(3 - k) = "Reachable"
         IN Same(compute_match_usefulness(
                   ty, InitialArena \o ArmPat(i).subs, SplitArms(i)))

\* A report for an or-pattern arm that lists one of its two alternatives,
\* followed by another arm.
OrSplitEquivalentWitness ==
    /\ pc = "done"
    /\ \E i \in OrArms : i < Len(arms) /\ (AltListed(i, 1) \/ AltListed(i, 2))

----------------------------------------------------------------------------
(* Invariants of the engine and of the driver.                             *)

\* C8: no assert or drain range of the analysis fails, and every witness in
\* the result of a call is_useful(M, v, ConstructWitness, ..) has exactly
\* len(v) patterns; the wildcard probe's witnesses have exactly one.
WitnessLengths ==
    /\ pc # "panic"
    /\ \A c \in calls :
          c.pref = "ConstructWitness"
          => /\ c.u.kind = "WithWitnesses"
             /\ \A k \in 1..Len(c.u.witnesses) : Len(c.u.witnesses[k]) = Len(c.v)
             /\ c.via = "top" => Len(c.v) = 1

\* The probe has returned witnesses, and on its way a call on a row of two
\* columns returned witnesses built with a constructor of two fields.
WitnessLengthsWitness ==
    /\ pc = "done"
    /\ witnesses # <<>>
    /\ \E c \in calls :
          /\ c.pref = "ConstructWitness"
          /\ Len(c.v) = 2
          /\ c.u.witnesses # <<>>
    /\ \E k \in 1..Len(witnesses) : Len(witnesses[k].subs) = 2

RECURSIVE ExpandedRows(_)
\* The or-expanded patterns of the non-guarded arms among the first n.
ExpandedRows(n) ==
    IF n <= 0 THEN <<>>
    ELSE ExpandedRows(n - 1)
         \o (IF arms[n].has_guard THEN <<>> ELSE FlatAlts(ArmPat(n)))

\* The patterns of the rows of a matrix of one column.
RowPats(m) == [k \in 1..Len(m) |-> arena[m[k][1]]]

\* C9: the driver's matrix has one column and holds the or-expanded rows of
\* the non-guarded arms evaluated so far, in arm order, and nothing else;
\* the call that computed an arm's usefulness, and the probe's call, were
\* given the matrix of the arms before it.
DriverMatrix ==
    pc \in {"arms", "done"} =>
      /\ \A k \in 1..Len(matrix) : Len(matrix[k]) = 1
      /\ RowPats(matrix) = ExpandedRows(next_arm - 1)
      /\ \A c \in calls :
            c.via = "top" =>
              /\ \A k \in 1..Len(c.m) : Len(c.m[k]) = 1
              /\ IF pc = "arms"
                 THEN /\ c.v = <<arms[next_arm - 1].pat>>
                      /\ RowPats(c.m) = ExpandedRows(next_arm - 2)
                 ELSE /\ arena[c.v[1]] = wildcard_from_ty(ty)
                      /\ c.m = matrix
                      /\ next_arm = Len(arms) + 1

\* The probe has run on the matrix of a guarded arm and of an or-pattern arm
\* after it.
DriverMatrixWitness ==
    /\ pc = "done"
    /\ Len(arms) = 2
    /\ arms[1].has_guard
    /\ ~arms[2].has_guard
    /\ ArmPat(2).kind = "Or"
    /\ Len(matrix) >= 2

\* The match `Some(true) | Some(true), None` on {None, Some(bool)}, no guards.
DuplicateAlternativeMatch ==
    /\ ty = "OptBool"
    /\ Len(arms) = 2
    /\ \A j \in 1..2 : ~arms[j].has_guard
    /\ ArmPat(1) = Label(POr("OptBool", <<PSome(PTrue), PSome(PTrue)>>), <<1>>)
    /\ ArmPat(2) = Label(PNone, <<2>>)

\* C10: for `Some(true) | Some(true), None` the first arm is Reachable and
\* lists exactly its second alternative, the second arm is Reachable and
\* lists nothing, and the only witness is Some(false).
DuplicateAlternativeReport ==
    (DuplicateAlternativeMatch /\ pc = "done") =>
      /\ arm_usefulness[1].reach.tag = "Reachable"
      /\ Len(arm_usefulness[1].reach.pats) = 1
      /\ arena[arm_usefulness[1].reach.pats[1]].node = <<1, 2>>
      /\ arm_usefulness[2].reach = Reachable(<<>>)
      /\ witnesses = <<PSome(PFalse)>>

\* The report for that match has been built.
DuplicateAlternativeReportWitness ==
    /\ DuplicateAlternativeMatch
    /\ pc = "done"
    /\ Len(arm_usefulness) = 2

----------------------------------------------------------------------------
(* Two more reports on {None, Some(bool)}.                                  *)

\* The match `Some(_), Some(true)` on {None, Some(bool)}, no guards.
ShadowedArmMatch ==
    /\ ty = "OptBool"
    /\ Len(arms) = 2
    /\ \A j \in 1..2 : ~arms[j].has_guard
    /\ ArmPat(1) = Label(PSome(wildcard_from_ty("Bool")), <<1>>)
    /\ ArmPat(2) = Label(PSome(PTrue), <<2>>)

\* C11: for `Some(_), Some(true)` the first arm is Reachable, the second is
\* Unreachable, and the only witness is None.
ShadowedArmReport ==
    ShadowedArmMatch =>
      /\ pc # "panic"
      /\ Len(arm_usefulness) >= 1 => arm_usefulness[1].reach = Reachable(<<>>)
      /\ Len(arm_usefulness) >= 2 => arm_usefulness[2].reach = Unreachable
      /\ pc = "done" => witnesses = <<PNone>>

\* The report for that match has been built.
ShadowedArmReportWitness ==
    /\ ShadowedArmMatch
    /\ pc = "done"
    /\ Len(arm_usefulness) = 2

\* The match `Some(true), None` on {None, Some(bool)}, no guards.
MissingFalseMatch ==
    /\ ty = "OptBool"
    /\ Len(arms) = 2
    /\ \A j \in 1..2 : ~arms[j].has_guard
    /\ ArmPat(1) = Label(PSome(PTrue), <<1>>)
    /\ ArmPat(2) = Label(PNone, <<2>>)

\* The calls of the probe that returned exactly the witnesses ws for a row of
\* n columns.
ProbeCalls(n, ws) ==
    {c \in calls : c.pref = "ConstructWitness" /\ Len(c.v) = n /\ c.u.witnesses = ws}

\* C12: for `Some(true), None` both arms are Reachable and the only witness
\* is Some(false); the probe builds it bottom-up: the empty witness of the
\* empty row, then [false] for the bool column, then [Some(false)].
MissingFalseReport ==
    MissingFalseMatch =>
      /\ pc # "panic"
      /\ \A j \in 1..Len(arm_usefulness) : arm_usefulness[j].reach = Reachable(<<>>)
      /\ pc = "done" =>
            /\ Len(arm_usefulness) = 2
            /\ witnesses = <<PSome(PFalse)>>
            /\ ProbeCalls(0, << <<>> >>) # {}
            /\ \E c \in ProbeCalls(1, << <<PFalse>> >>) :
                  c.via = "ctor" /\ arena[c.v[1]].ty = "Bool"
            /\ \E c \in ProbeCalls(1, << <<PSome(PFalse)>> >>) : c.via = "top"
            /\ \A c \in calls : c.u.witnesses # <<>> =>
                  c.u.witnesses \in {<< <<>> >>, << <<PFalse>> >>,
                                     << <<PSome(PFalse)>> >>}

\* The report for that match has been built.
MissingFalseReportWitness ==
    /\ MissingFalseMatch
    /\ pc = "done"
    /\ witnesses # <<>>

----------------------------------------------------------------------------
(* A report on u8.                                                         *)

\* The match `0..=127, 64..=200` on u8, no guards.
OverlappingRangesMatch ==
    /\ ty = "U8"
    /\ Len(arms) = 2
    /\ \A j \in 1..2 : ~arms[j].has_guard
    /\ ArmPat(1) = Label(PRange(0, 127), <<1>>)
    /\ ArmPat(2) = Label(PRange(64, 200), <<2>>)

\* C13: for `0..=127, 64..=200` on u8 both arms are Reachable, the second
\* because the part 128..=200 of its range is matched by no earlier arm, and
\* the witnesses match exactly the values 201..=255.
OverlappingRangesReport ==
    OverlappingRangesMatch =>
      /\ pc # "panic"
      /\ \A j \in 1..Len(arm_usefulness) : arm_usefulness[j].reach = Reachable(<<>>)
      /\ {val \in Values("U8") : Matches(val, ArmPat(2)) /\ ~MatchedBefore(val, 2)}
           = 128..200
      /\ pc = "done" =>
            /\ Len(arm_usefulness) = 2
            /\ witnesses # <<>>
            /\ {val \in Values("U8") :
                  \E k \in 1..Len(witnesses) : Matches(val, witnesses[k])}
                 = 201..U8Max

\* The report for that match has been built.
OverlappingRangesReportWitness ==
    /\ OverlappingRangesMatch
    /\ pc = "done"
    /\ Len(arm_usefulness) = 2

----------------------------------------------------------------------------
(* The SubPatSet operations on their own: applied to the sets of sub-       *)
(* patterns of the pattern-stack                                            *)
(*     [ Some(true | false) | None ,  true | false ]                        *)
(* that are in the smallest representation.                                 *)

\* The arena of that pattern-stack: the two columns, the or-pattern inside
\* Some, and the or-pattern of one more column.
SetsArena ==
    <<Label(POr("OptBool", <<PSome(POr("Bool", <<PTrue, PFalse>>)), PNone>>), <<1>>),
      Label(POr("Bool", <<PTrue, PFalse>>), <<2>>),
      Label(POr("Bool", <<PTrue, PFalse>>), <<1, 1, 1>>),
      Label(POr("Bool", <<PTrue, PFalse>>), <<3>>)>>

\* The maps that give some of the keys of `opts` a set of opts[key].
PartialMaps(opts) ==
    UNION {{f \in [D -> UNION {opts[k] : k \in D}] : \A k \in D : f[k] \in opts[k]}
           : D \in SUBSET DOMAIN opts}

\* The Alt sets for or-pattern `pat`, opts[i] being the non-empty sets of its
\* alternative i, that are neither empty nor full.
AltSets(pat, opts) ==
    {s \in {Alt(f, Cardinality(DOMAIN opts), pat) : f \in PartialMaps(opts)} :
       ~is_empty(s) /\ ~is_full(s)}

\* The Seq sets, opts[i] being the sets of field or column i that are
\* neither empty nor full, that are not full.
SeqSets(opts) == {s \in {Seq_(f) : f \in PartialMaps(opts)} : ~is_full(s)}

\* The sets of the or-pattern inside Some, of Some(true | false), and of the
\* two columns.
InnerSets == AltSets(3, [i \in 0..1 |-> {Full}])

SomeSets == SeqSets([i \in 0..0 |-> InnerSets])

ColumnSets ==
    [j \in 0..1 |->
       IF j = 0
       THEN AltSets(1, [i \in 0..1 |-> IF i = 0 THEN {Full} \cup SomeSets ELSE {Full}])
       ELSE AltSets(2, [i \in 0..1 |-> {Full}])]

\* The sets of the pattern-stack.
StackSets == {Empty, Full} \cup SeqSets(ColumnSets)

\* s is in the smallest representation: Empty when empty, Full when full.
Smallest(s) ==
    /\ is_empty(s) => s = Empty
    /\ is_full(s) => s = Full

RECURSIVE WellFormed(_)
\* s and the sets inside it are in the smallest representation, and hold no
\* entry that could be dropped.
WellFormed(s) ==
    /\ s.tag \in {"Empty", "Full", "Seq", "Alt"}
    /\ Smallest(s)
    /\ \A i \in DOMAIN s.subpats :
          /\ WellFormed(s.subpats[i])
          /\ s.subpats[i] # Empty
          /\ s.tag = "Seq" => s.subpats[i] # Full

\* The sets of the pattern-stack after the constructor Some was popped from
\* an alternative of column 0, with one more column:
\*     [ true | false ,  true | false ,  true | false ].
SpecializedSets ==
    SeqSets([j \in 0..2 |->
               IF j = 0 THEN InnerSets \cup SomeSets
               ELSE IF j = 1 THEN ColumnSets[1]
               ELSE AltSets(4, [i \in 0..1 |-> {Full}])])

\* Sets that are not in the smallest representation.
DenormalSets ==
    {Seq_([i \in {0} |-> Full]),
     Seq_([i \in {0} |-> Alt([k \in 0..1 |-> Full], 2, 1)]),
     Seq_([i \in {0} |-> Alt([k \in {0} |-> Empty], 2, 1)]),
     Seq_([i \in {0} |-> Alt([k \in 0..1 |-> IF k = 0 THEN Empty ELSE Full], 2, 1)]),
     Seq_([i \in {0} |->
             Alt([k \in 0..1 |->
                    IF k = 0
                    THEN Seq_([j \in {0} |-> Alt([n \in 0..1 |-> Empty], 2, 3)])
                    ELSE Full], 2, 1)])}

\* The operands of the steps that take one set: sets of pattern-stacks, the
\* sets of single columns (no pattern-stack), and the denormal ones.
RowSets == StackSets \cup SpecializedSets \cup ColumnSets[0] \cup DenormalSets

\* The largest arity given to unspecialize.
MaxArity == 3

\* The largest alt_count given to unsplit_or_pat.
MaxAltCount == 3

\* The deepest nesting of or-patterns given to expand_or_pat.
MaxOrDepth == 2

RECURSIVE OrTrees(_)
\* The bool patterns with or-patterns nested up to depth d.
OrTrees(d) ==
    IF d = 0 THEN BoolLeaves
    ELSE LET Below(t) == t \cup {POr("Bool", <<x, y>>) : x \in t, y \in t}
         IN Below(OrTrees(d - 1))

\* The patterns given to expand_or_pat: the arm patterns, and or-patterns of
\* three alternatives and of deeper nesting.
ExpandPats ==
    UNION {ArmPats(t) : t \in Types}
    \cup OrTrees(MaxOrDepth)
    \cup {POr("Bool", <<x, y, PTrue>>) : x \in OrTrees(1), y \in BoolLeaves}

InitSets ==
    /\ ty = "OptBool"
    /\ arms = <<>>
    /\ \/ /\ arena = SetsArena
          /\ sets \in (StackSets \X StackSets \X StackSets)
                       \cup {<<s>> : s \in RowSets}
       \/ /\ arena \in {<<Label(p, <<1>>)>> : p \in ExpandPats}
          /\ sets = <<>>
    /\ matrix = <<>>
    /\ next_arm = 1
    /\ arm_usefulness = <<>>
    /\ witnesses = <<>>
    /\ usefulness = NoCall
    /\ calls = {}
    /\ pc = "sets"
    /\ op = "none"
    /\ out = <<>>
    /\ adjustment = <<>>

\* self.union(other), for the operands in both orders and both groupings.
Union ==
    /\ pc = "sets"
    /\ op = "none"
    /\ Len(sets) = 3
    /\ op' = "union"
    /\ \E ab \in {union(sets[1], sets[2])}, bc \in {union(sets[2], sets[3])} :
          out' = [ab |-> ab, ba |-> union(sets[2], sets[1]), bc |-> bc,
                  aa |-> union(sets[1], sets[1]),
                  ab_c |-> union(ab, sets[3]), a_bc |-> union(sets[1], bc)]
    /\ UNCHANGED <<ty, arms, arena, matrix, next_arm, arm_usefulness, witnesses,
                   usefulness, calls, pc, sets, adjustment>>

\* self.unspecialize(arity)
Unspecialize ==
    /\ pc = "sets"
    /\ op = "none"
    /\ Len(sets) = 1
    /\ op' = "unspecialize"
    /\ \E arity \in 0..MaxArity :
          out' = [self |-> sets[1], arity |-> arity,
                  result |-> unspecialize(sets[1], arity)]
    /\ UNCHANGED <<ty, arms, arena, matrix, next_arm, arm_usefulness, witnesses,
                   usefulness, calls, pc, sets, adjustment>>

\* self.unsplit_or_pat(alt_id, alt_count, pat)
UnsplitOrPat ==
    /\ pc = "sets"
    /\ op = "none"
    /\ Len(sets) = 1
    /\ op' = "unsplit_or_pat"
    /\ \E alt_count \in 2..MaxAltCount, pat \in DOMAIN arena :
          \E alt_id \in 0..(alt_count - 1) :
             out' = [self |-> sets[1], alt_id |-> alt_id, alt_count |-> alt_count,
                     pat |-> pat,
                     result |-> unsplit_or_pat(sets[1], alt_id, alt_count, pat)]
    /\ UNCHANGED <<ty, arms, arena, matrix, next_arm, arm_usefulness, witnesses,
                   usefulness, calls, pc, sets, adjustment>>

\* self.list_unreachable_subpatterns(cx)
ListUnreachable ==
    /\ pc = "sets"
    /\ op = "none"
    /\ Len(sets) = 1
    /\ op' = "list_unreachable_subpatterns"
    /\ \E r \in {list_unreachable_subpatterns(sets[1], arena)} :
          /\ arena' = r.a
          /\ out' = [self |-> sets[1], result |-> r]
    /\ UNCHANGED <<ty, arms, matrix, next_arm, arm_usefulness, witnesses,
                   usefulness, calls, pc, sets, adjustment>>

\* pat.expand_or_pat(cx), twice: as is_useful does to count the alternatives,
\* and as list_unreachable_subpatterns does later, on the arena as it is then.
ExpandOrPat ==
    /\ pc = "sets"
    /\ op = "none"
    /\ sets = <<>>
    /\ op' = "expand_or_pat"
    /\ \E first \in {expand_or_pat(1, arena)} :
          \E second \in {expand_or_pat(1, first.a)} :
             /\ arena' = second.a
             /\ out' = [pat |-> 1, before |-> arena, first |-> first,
                        second |-> second]
    /\ UNCHANGED <<ty, arms, matrix, next_arm, arm_usefulness, witnesses,
                   usefulness, calls, pc, sets, adjustment>>

NextSets == Union \/ Unspecialize \/ UnsplitOrPat \/ ListUnreachable \/ ExpandOrPat

SpecSets == InitSets /\ [][NextSets]_vars

\* C14: union is commutative, associative and idempotent on sets of the same
\* pattern-stack.
UnionLaws ==
    op = "union" =>
      /\ out.ab = out.ba
      /\ out.ab_c = out.a_bc
      /\ out.aa = sets[1]

\* The union of two sets that are neither empty nor full, nor equal, has
\* been taken, and it is neither of them.
UnionLawsWitness ==
    /\ op = "union"
    /\ Len(sets) = 3
    /\ sets[1].tag = "Seq"
    /\ sets[2].tag = "Seq"
    /\ sets[3].tag = "Seq"
    /\ out.ab \notin {sets[1], sets[2], Empty, Full}

\* The unions taken by the Union step, as <<self, other, result>>.
UnionsTaken ==
    {<<sets[1], sets[2], out.ab>>, <<sets[2], sets[1], out.ba>>,
     <<sets[2], sets[3], out.bc>>, <<sets[1], sets[1], out.aa>>,
     <<out.ab, sets[3], out.ab_c>>, <<sets[1], out.bc, out.a_bc>>}

\* C15: a union with a full operand is Full, and a union with an empty
\* operand is the other operand.
UnionFullEmpty ==
    op = "union" =>
      \A u \in UnionsTaken :
         /\ (is_full(u[1]) \/ is_full(u[2])) => u[3] = Full
         /\ is_empty(u[1]) => u[3] = u[2]
         /\ is_empty(u[2]) => u[3] = u[1]

\* Unions of a set that is neither empty nor full with Full and with Empty,
\* on either side, have been taken.
UnionFullEmptyWitness ==
    /\ op = "union"
    /\ sets[1].tag = "Seq"
    /\ sets[2] = Full
    /\ sets[3] = Empty
    /\ out.ab = Full
    /\ out.a_bc = Full
    /\ out.aa = sets[1]

\* The engine and the steps on sets under one specification.
InitAll == Init \/ InitSets

NextAll == Next \/ NextSets

SpecAll == InitAll /\ [][NextAll]_vars

\* C16: every set that results from union, unspecialize or unsplit_or_pat on
\* sets in the smallest representation, and every set returned by a call of
\* is_useful, is in the smallest representation: Empty when empty, Full when
\* full, also in the sets inside it; so none is both empty and full.
NormalForm ==
    /\ \A c \in calls :
          c.pref = "LeaveOutWitness"
          => /\ c.u.kind = "NoWitnesses"
             /\ WellFormed(c.u.subpats)
             /\ ~(is_empty(c.u.subpats) /\ is_full(c.u.subpats))
    /\ op = "union"
         => \A u \in UnionsTaken :
               WellFormed(u[3]) /\ ~(is_empty(u[3]) /\ is_full(u[3]))
    /\ (/\ op \in {"unspecialize", "unsplit_or_pat"}
        /\ WellFormed(out.self)
        /\ out.self.tag # "Alt")
         => /\ WellFormed(out.result)
            /\ ~(is_empty(out.result) /\ is_full(out.result))

\* The union of two sets that are not full was structurally full, and is Full.
NormalFormWitness ==
    /\ op = "union"
    /\ ~is_full(sets[1])
    /\ ~is_full(sets[2])
    /\ sets[1].tag = "Seq"
    /\ sets[2].tag = "Seq"
    /\ out.ab = Full

\* C17: unspecialize(arity) moves the entries of a Seq with a key below arity
\* into one inner Seq at key 0, which is left out when there is none, and
\* each other entry from key i to key i - arity + 1, losing and duplicating
\* none; it returns Full and Empty unchanged and panics on an Alt.
UnspecializeShifts ==
    op = "unspecialize" =>
      LET self == out.self
          arity == out.arity
          result == out.result
          low == {i \in DOMAIN self.subpats : i < arity}
          high == {i \in DOMAIN self.subpats : i >= arity}
      IN /\ self.tag \in {"Full", "Empty"} => result = self
         /\ self.tag = "Alt" => result.tag = "Bug"
         /\ self.tag = "Seq" =>
              /\ result.tag = "Seq"
              /\ \A i \in high :
                    /\ i - arity + 1 \in DOMAIN result.subpats
                    /\ result.subpats[i - arity + 1] = self.subpats[i]
              /\ \A k \in DOMAIN result.subpats \ {0} : k + arity - 1 \in high
              /\ 0 \in DOMAIN result.subpats <=> low # {}
              /\ low # {} =>
                    /\ result.subpats[0].tag = "Seq"
                    /\ DOMAIN result.subpats[0].subpats = low
                    /\ \A i \in low : result.subpats[0].subpats[i] = self.subpats[i]
              /\ Cardinality(DOMAIN result.subpats)
                   = Cardinality(high) + (IF low # {} THEN 1 ELSE 0)

\* unspecialize(2) was applied to a Seq with entries at the keys 0, 1 and 2.
UnspecializeShiftsWitness ==
    /\ op = "unspecialize"
    /\ out.arity = 2
    /\ out.self.tag = "Seq"
    /\ DOMAIN out.self.subpats = {0, 1, 2}
    /\ DOMAIN out.result.subpats = {0, 1}
    /\ DOMAIN out.result.subpats[0].subpats = {0, 1}

\* C19: unsplit_or_pat(alt_id, alt_count, pat) of an empty set is Empty; of
\* any other set of a pattern-stack it is a Seq whose key 0 holds an Alt of
\* alt_count and pat with the single entry alt_id, the former set at key 0
\* (Full if there was none), and whose other entries are those of the input.
UnsplitWraps ==
    (op = "unsplit_or_pat" /\ out.self.tag # "Alt") =>
      LET self == out.self
          result == out.result
      IN /\ is_empty(self) => result = Empty
         /\ ~is_empty(self) =>
              /\ result.tag = "Seq"
              /\ 0 \in DOMAIN result.subpats
              /\ result.subpats[0].tag = "Alt"
              /\ result.subpats[0].alt_count = out.alt_count
              /\ result.subpats[0].pat = out.pat
              /\ DOMAIN result.subpats[0].subpats = {out.alt_id}
              /\ result.subpats[0].subpats[out.alt_id] =
                   (IF self.tag = "Seq" /\ 0 \in DOMAIN self.subpats
                    THEN self.subpats[0] ELSE Full)
              /\ DOMAIN result.subpats \ {0} = DOMAIN self.subpats \ {0}
              /\ \A k \in DOMAIN self.subpats \ {0} :
                    result.subpats[k] = self.subpats[k]

\* unsplit_or_pat was applied to a Seq with a set at key 0 and one at key 1,
\* for the second of three alternatives.
UnsplitWrapsWitness ==
    /\ op = "unsplit_or_pat"
    /\ out.self.tag = "Seq"
    /\ DOMAIN out.self.subpats = {0, 1}
    /\ out.self.subpats[0].tag = "Seq"
    /\ out.alt_id = 1
    /\ out.alt_count = 3
    /\ out.result.tag = "Seq"

RECURSIVE Describes(_, _)
\* The set describes sub-patterns of the pattern p: an Alt stands at an
\* or-pattern with as many alternatives and holds sets of its alternatives,
\* a Seq stands at a constructor pattern and holds sets of its fields.
Describes(set, p) ==
    CASE set.tag = "Full" -> TRUE
      [] set.tag = "Alt" ->
           /\ p.kind = "Or"
           /\ set.alt_count = Len(FlatAlts(p))
           /\ arena[set.pat].node = p.node
           /\ \A i \in DOMAIN set.subpats :
                 /\ i < set.alt_count
                 /\ Describes(set.subpats[i], FlatAlts(p)[i + 1])
      [] set.tag = "Seq" ->
           /\ p.kind = "Variant"
           /\ \A k \in DOMAIN set.subpats :
                 /\ k < Len(p.subs)
                 /\ Describes(set.subpats[k], p.subs[k + 1])
      [] OTHER -> FALSE

\* C18: the set returned by is_useful(M, v, LeaveOutWitness, ..) is Empty,
\* Full, or a Seq whose keys are below len(v) and whose set at key j
\* describes sub-patterns of column j of v, an Alt only at an or-pattern of
\* the same alt_count.
ColumnStructure ==
    \A c \in calls :
       c.pref = "LeaveOutWitness" =>
         /\ c.u.subpats.tag \in {"Empty", "Full", "Seq"}
         /\ \A j \in DOMAIN c.u.subpats.subpats :
               /\ j < Len(c.v)
               /\ Describes(c.u.subpats.subpats[j], arena[c.v[j + 1]])

\* A call on a row of two columns, reached by popping a constructor of two
\* fields, returned a set with an Alt for the or-pattern of its second column.
ColumnStructureWitness ==
    \E c \in calls :
       /\ c.pref = "LeaveOutWitness"
       /\ Len(c.v) = 2
       /\ c.u.subpats.tag = "Seq"
       /\ 1 \in DOMAIN c.u.subpats.subpats
       /\ c.u.subpats.subpats[1].tag = "Alt"
       /\ arena[c.v[2]].kind = "Or"

RECURSIVE ReachedAlts(_)
\* The Alt sets the listing reaches in a non-empty set: those in a Seq, and
\* those in the entries of a reached Alt that are not empty.
ReachedAlts(s) ==
    CASE s.tag = "Seq" -> UNION {ReachedAlts(s.subpats[i]) : i \in DOMAIN s.subpats}
      [] s.tag = "Alt" ->
           {s} \cup UNION {ReachedAlts(s.subpats[i]) :
                             i \in {k \in DOMAIN s.subpats : ~is_empty(s.subpats[k])}}
      [] OTHER -> {}

\* The alternatives of a reached Alt whose entry is missing or empty.
MissingAlts(alt) ==
    {i \in 0..(alt.alt_count - 1) :
       i \notin DOMAIN alt.subpats \/ is_empty(alt.subpats[i])}

\* Alternative i of the or-pattern of an Alt.
AltPat(alt, i) == FlatAlts(SetsArena[alt.pat])[i + 1]

\* The patterns behind the handles that the listing returned.
Emitted == [k \in 1..Len(out.result.pats) |-> out.result.a[out.result.pats[k]]]

\* C20: list_unreachable_subpatterns returns None exactly for an empty set
\* and Some([]) for a full one; for any other set it returns the handles of
\* the alternatives i of the Alts it reaches whose entry is missing or empty,
\* each once and in increasing i for one Alt; on a set that is not empty it
\* neither reaches the Empty panic nor indexes past the alternatives.
ListsMissingAlternatives ==
    op = "list_unreachable_subpatterns" =>
      LET self == out.self
          r == out.result
      IN /\ ~r.some <=> is_empty(self)
         /\ is_empty(self) => r.pats = <<>> /\ ~r.bug
         /\ is_full(self) => r.some /\ r.pats = <<>> /\ ~r.bug
         /\ ~is_empty(self) =>
              /\ ~r.bug
              /\ {Emitted[k] : k \in 1..Len(Emitted)} =
                   UNION {{AltPat(alt, i) : i \in MissingAlts(alt)} :
                            alt \in ReachedAlts(self)}
              /\ \A k, n \in 1..Len(Emitted) : k # n => Emitted[k] # Emitted[n]
              /\ \A alt \in ReachedAlts(self) :
                    \A i, j \in MissingAlts(alt) :
                       i < j =>
                         \E k, n \in 1..Len(Emitted) :
                            /\ k < n
                            /\ Emitted[k] = AltPat(alt, i)
                            /\ Emitted[n] = AltPat(alt, j)

\* The listing reached an Alt with an alternative missing, went into the set
\* of its other alternative, and returned a handle from each of the two.
ListsMissingAlternativesWitness ==
    /\ op = "list_unreachable_subpatterns"
    /\ out.self.tag = "Seq"
    /\ 0 \in DOMAIN out.self.subpats
    /\ DOMAIN out.self.subpats[0].subpats = {0}
    /\ out.self.subpats[0].subpats[0].tag = "Seq"
    /\ Len(out.result.pats) >= 2
    /\ SetsArena[1].subs[2] \in {Emitted[k] : k \in 1..Len(Emitted)}

----------------------------------------------------------------------------
(* Invariants of the matrices and rows of the recursion.                   *)

\* No row of the matrix m that has a column starts with an or-pattern.
NoOrHead(m) == \A k \in 1..Len(m) : m[k] # <<>> => arena[m[k][1]].kind # "Or"

\* The driver's push of this step added one row per flattened alternative of
\* the arm's pattern, in the order of the alternatives, after the rows the
\* matrix had.
PushAddsAlternatives ==
    (pc = "arms" /\ pc' = "arms" /\ next_arm' = next_arm + 1
     /\ ~arms[next_arm].has_guard)
    => /\ Len(matrix') = Len(matrix) + Len(FlatAlts(ArmPat(next_arm)))
       /\ SubSeq(matrix', 1, Len(matrix)) = matrix
       /\ \A k \in 1..Len(FlatAlts(ArmPat(next_arm))) :
             /\ Len(matrix'[Len(matrix) + k]) = 1
             /\ arena'[matrix'[Len(matrix) + k][1]] = FlatAlts(ArmPat(next_arm))[k]

\* C21: no row with a column of the driver's matrix, or of the matrix of any
\* call of is_useful, starts with an or-pattern; and the push of a row whose
\* head is an or-pattern of k flattened alternatives adds exactly k rows, in
\* the order of the alternatives.
MatrixHeads ==
    /\ [](NoOrHead(matrix) /\ \A c \in calls : NoOrHead(c.m) /\ NoOrHead(c.pm))
    /\ [][PushAddsAlternatives]_vars

\* The driver has pushed an arm of three flattened alternatives, and a call
\* was made on a specialized matrix of several rows.
MatrixHeadsWitness ==
    /\ pc = "done"
    /\ \E i \in 1..Len(arms) :
          ~arms[i].has_guard /\ Len(FlatAlts(ArmPat(i))) >= 3
    /\ Len(matrix) >= 3
    /\ \E c \in calls : c.via = "ctor" /\ Len(c.m) >= 2

\* The constructor that the constructor path of the call on (pm, pv) took for
\* its split number idx (0-based), as is_useful computes it.
SplitCtor(pm, pv, idx) ==
    split(head_ctor(pv, arena),
          IF pm # <<>> THEN arena[pm[1][1]].ty ELSE arena[pv[1]].ty,
          head_ctors(pm, arena))[idx + 1]

\* C22: in every call of is_useful all rows of the matrix are as long as v,
\* so the assert does not fail; the row and the matrix of a call made for a
\* constructor c have len - 1 + arity(c) columns, len being the length of
\* the caller's row.
RowLengths ==
    /\ pc # "panic"
    /\ \A c \in calls :
          /\ c.u.kind # "Bug"
          /\ \A k \in 1..Len(c.m) : Len(c.m[k]) = Len(c.v)
          /\ \A k \in 1..Len(c.pm) : Len(c.pm[k]) = Len(c.pv)
          /\ c.via = "top" => Len(c.v) = 1
          /\ c.via = "or" => Len(c.v) = Len(c.pv)
          /\ c.via = "ctor" =>
                Len(c.v) = Len(c.pv) - 1
                             + Len(field_tys(SplitCtor(c.pm, c.pv, c.idx)))

\* Calls were made for a constructor of two fields, of one field and of no
\* field, the last on a matrix that has rows.
RowLengthsWitness ==
    /\ \E c \in calls :
          c.via = "ctor" /\ Len(c.v) = 2 /\ Len(c.pv) = 1 /\ Len(c.m) >= 1
    /\ \E c \in calls :
          c.via = "ctor" /\ Len(c.v) = 1 /\ Len(c.pv) = 2 /\ Len(c.m) >= 1
    /\ \E c \in calls : c.via = "ctor" /\ c.v = <<>> /\ Len(c.m) >= 1

\* The patterns of a row.
RowPatterns(row) == [k \in 1..Len(row) |-> arena[row[k]]]

\* The patterns of a row after its head was popped for ctor: the arguments of
\* a constructor pattern, wildcards for any other head, then the other
\* columns.
PoppedPatterns(rp, ctor) ==
    (IF rp[1].kind = "Variant" THEN rp[1].subs
     ELSE [k \in 1..Len(field_tys(ctor)) |-> wildcard_from_ty(field_tys(ctor)[k])])
    \o Tail(rp)

\* The rows that the push of a row of patterns adds.
PushedPatterns(rp) ==
    IF rp # <<>> /\ rp[1].kind = "Or"
    THEN [k \in 1..Len(FlatAlts(rp[1])) |-> <<FlatAlts(rp[1])[k]>> \o Tail(rp)]
    ELSE <<rp>>

RECURSIVE SpecializedPatterns(_, _, _)
\* The rows of patterns of the matrix pm specialized for ctor, from row k on.
SpecializedPatterns(pm, ctor, k) ==
    IF k > Len(pm) THEN <<>>
    ELSE (IF is_covered_by(ctor, head_ctor(pm[k], arena))
          THEN PushedPatterns(PoppedPatterns(RowPatterns(pm[k]), ctor))
          ELSE <<>>)
         \o SpecializedPatterns(pm, ctor, k + 1)

\* C23: the matrix that specialize_constructor hands to a call of the
\* constructor path holds, in the order of the caller's rows, the popped row
\* of every row whose head constructor covers the constructor, expanded into
\* several rows when an or-pattern becomes the head, and nothing for the
\* other rows; the caller's matrix is the same for every constructor.
SpecializeRows ==
    \A c \in calls :
       c.via = "ctor" =>
         /\ [k \in 1..Len(c.m) |-> RowPatterns(c.m[k])]
              = SpecializedPatterns(c.pm, SplitCtor(c.pm, c.pv, c.idx), 1)
         /\ \E d \in calls : d.v = c.pv /\ d.m = c.pm

\* A call of the constructor path was made on a matrix that lost a row of
\* the caller's matrix and has two rows for one of its rows, after a call
\* for an earlier constructor.
SpecializeRowsWitness ==
    \E c \in calls :
       /\ c.via = "ctor"
       /\ c.idx >= 1
       /\ \E k \in 1..Len(c.pm) :
             ~is_covered_by(SplitCtor(c.pm, c.pv, c.idx), head_ctor(c.pm[k], arena))
       /\ \E k \in 1..Len(c.pm) :
             /\ is_covered_by(SplitCtor(c.pm, c.pv, c.idx), head_ctor(c.pm[k], arena))
             /\ Len(PushedPatterns(PoppedPatterns(RowPatterns(c.pm[k]),
                                                  SplitCtor(c.pm, c.pv, c.idx)))) = 2

----------------------------------------------------------------------------
(* Or-expansion and the arena.                                              *)

\* The patterns behind the handles of an expansion.
ExpandedPatterns(e) == [k \in 1..Len(e.vec) |-> e.a[e.vec[k]]]

\* C24: expand_or_pat returns the alternatives that are no or-patterns, the
\* nested ones flattened, from left to right; a second expansion of the same
\* handle, on the arena the first one left, has the same length and equal
\* patterns at each index.
ExpansionStable ==
    op = "expand_or_pat" =>
      /\ ExpandedPatterns(out.first) = FlatAlts(out.before[out.pat])
      /\ \A k \in 1..Len(out.first.vec) : out.first.a[out.first.vec[k]].kind # "Or"
      /\ Len(out.second.vec) = Len(out.first.vec)
      /\ \A k \in 1..Len(out.first.vec) :
            out.second.a[out.second.vec[k]] = out.first.a[out.first.vec[k]]

\* An or-pattern with or-patterns nested in its first and in its second
\* alternative was expanded twice, the second time with other handles.
ExpansionStableWitness ==
    /\ op = "expand_or_pat"
    /\ out.before[1].kind = "Or"
    /\ out.before[1].subs[1].kind = "Or"
    /\ out.before[1].subs[2].kind = "Or"
    /\ Len(out.first.vec) = 4
    /\ out.first.vec # out.second.vec

RECURSIVE OrAlternatives(_)
\* The alternatives of an or-pattern and of the or-patterns among them.
OrAlternatives(p) ==
    IF p.kind # "Or" THEN {}
    ELSE UNION {{p.subs[i]} \cup OrAlternatives(p.subs[i]) : i \in DOMAIN p.subs}

\* The step leaves every entry of the arena as it is.
ArenaKept ==
    /\ Len(arena') >= Len(arena)
    /\ \A h \in DOMAIN arena : arena'[h] = arena[h]

\* C25: no step removes or overwrites an entry of the arena; expand_or_pat
\* on a handle that is no or-pattern allocates nothing and returns the
\* handle, and on an or-pattern it returns newly allocated handles and
\* leaves the entries that were there unchanged.
ArenaGrows ==
    /\ [][ArenaKept]_vars
    /\ [](op = "expand_or_pat" =>
            /\ out.before[out.pat].kind # "Or" =>
                  out.first.a = out.before /\ out.first.vec = <<out.pat>>
            /\ out.before[out.pat].kind = "Or" =>
                  /\ \A k \in 1..Len(out.first.vec) :
                        out.first.vec[k] > Len(out.before)
                  /\ SubSeq(out.first.a, 1, Len(out.before)) = out.before
                  /\ \A h \in (Len(out.before) + 1)..Len(out.first.a) :
                        out.first.a[h] \in OrAlternatives(out.before[out.pat]))

\* The analysis has ended after expanding or-patterns of the arms and
\* allocating the probe's wildcard: the arena is larger than at the start.
ArenaGrowsWitness ==
    /\ pc = "done"
    /\ Len(arms) = 2
    /\ arena[1].kind = "Or"
    /\ arena[Len(arena)].kind = "Wild"
    /\ Len(arena) > 8

----------------------------------------------------------------------------
(* The or-pattern path and the kinds of the results.                       *)

\* Arm i is an or-pattern of two alternatives that are the same pattern.
TwiceTheSame(i) ==
    /\ ArmPat(i).kind = "Or"
    /\ Len(FlatAlts(ArmPat(i))) = 2
    /\ Label(FlatAlts(ArmPat(i))[1], <<>>) = Label(FlatAlts(ArmPat(i))[2], <<>>)

\* The report of arm i lists the second alternative of the arm.
SecondListed(i) ==
    \E k \in 1..Len(arm_usefulness[i].reach.pats) :
       arena[arm_usefulness[i].reach.pats[k]]
         = FlatAlts(ArmPat(i))[Len(FlatAlts(ArmPat(i)))]

\* C26: the call for alternative i of an or-pattern is made on the caller's
\* matrix followed by the rows of the alternatives before i when not under
\* a guard, and on the caller's matrix alone under a guard, the caller's
\* matrix staying as it was; so a guarded arm p | p does not list its second
\* alternative, and an unguarded one that is reachable does.
AlternativesSeeEarlier ==
    /\ \A c \in calls :
          c.via = "or" =>
            /\ \E d \in calls : d.v = c.pv /\ d.m = c.pm /\ d.g = c.g
            /\ c.g => c.m = c.pm
            /\ ~c.g =>
                 /\ Len(c.m) = Len(c.pm) + c.idx
                 /\ SubSeq(c.m, 1, Len(c.pm)) = c.pm
                 /\ \A k \in 1..c.idx :
                       RowPatterns(c.m[Len(c.pm) + k])
                         = <<FlatAlts(arena[c.pv[1]])[k]>> \o RowPatterns(Tail(c.pv))
    /\ \A i \in 1..Len(arm_usefulness) :
          TwiceTheSame(i) =>
            /\ arms[i].has_guard => ~SecondListed(i)
            /\ (~arms[i].has_guard /\ arm_usefulness[i].reach.tag = "Reachable")
                 => SecondListed(i)

\* A guarded arm p | p was reported without its second alternative, after
\* the calls for both alternatives on the same matrix; another arm came
\* first.
AlternativesSeeEarlierWitness ==
    /\ Len(arm_usefulness) = 2
    /\ TwiceTheSame(2)
    /\ arms[2].has_guard
    /\ arm_usefulness[2].reach = Reachable(<<>>)
    /\ \E c \in calls : c.via = "or" /\ c.idx = 1 /\ c.g /\ Len(c.m) >= 1

\* C27: every call of is_useful returns NoWitnesses for LeaveOutWitness and
\* WithWitnesses for ConstructWitness, and no panic of a kind mismatch is
\* reached: not in extend, not in unsplit_or_pat (no call that constructs
\* witnesses is on a row with an or-pattern head, or made for an
\* alternative), not in the driver.
ResultKinds ==
    /\ pc # "panic"
    /\ usefulness.kind # "Bug"
    /\ \A c \in calls :
          /\ c.pref \in {"LeaveOutWitness", "ConstructWitness"}
          /\ c.pref = "LeaveOutWitness" => c.u.kind = "NoWitnesses"
          /\ c.pref = "ConstructWitness" =>
                /\ c.u.kind = "WithWitnesses"
                /\ c.via # "or"
                /\ c.v # <<>> => arena[c.v[1]].kind = "Wild"
    /\ \A i \in 1..Len(arm_usefulness) :
          arm_usefulness[i].reach.tag \in {"Reachable", "Unreachable"}

\* The analysis has ended: an arm went through the or-pattern path and lists
\* an alternative, and the probe's calls merged witnesses of two
\* constructors.
ResultKindsWitness ==
    /\ pc = "done"
    /\ \E i \in 1..Len(arm_usefulness) : arm_usefulness[i].reach.pats # <<>>
    /\ \E c \in calls :
          /\ c.pref = "ConstructWitness"
          /\ c.via = "ctor"
          /\ Len(c.u.witnesses) >= 2

----------------------------------------------------------------------------
(* Termination.                                                            *)

\* The driver goes on as long as it has an arm or the probe to do: weak
\* fairness of Next, WF_vars(Next), written out.  A step of Next is enabled
\* exactly when pc = "arms" (Arm while arms remain, Probe after the last),
\* and each changes next_arm or pc.
FairSpec == Spec /\ ([]<>(pc # "arms") \/ []<><<Next>>_vars)

RECURSIVE SumOver(_, _)
\* The sum of f[k] over k in 1..n.
SumOver(f, n) == IF n = 0 THEN 0 ELSE f[n] + SumOver(f, n - 1)

RECURSIVE NodeCount(_)
\* The number of nodes of a pattern.
NodeCount(p) == 1 + SumOver([k \in DOMAIN p.subs |-> NodeCount(p.subs[k])], Len(p.subs))

\* The number of nodes of the largest value pattern of a type.
TypeSize(t) ==
    CASE t = "OptBool" -> 2
      [] t = "Pair" -> 3
      [] OTHER -> 1

RECURSIVE Weight(_)
\* The number of nodes of a pattern, a wildcard counting as the largest
\* pattern of its type.
Weight(p) ==
    IF p.kind = "Wild" THEN TypeSize(p.ty)
    ELSE 1 + SumOver([k \in DOMAIN p.subs |-> Weight(p.subs[k])], Len(p.subs))

RowNodeCount(row) == SumOver([k \in 1..Len(row) |-> NodeCount(arena[row[k]])], Len(row))

RowWeight(row) == SumOver([k \in 1..Len(row) |-> Weight(arena[row[k]])], Len(row))

----------------------------------------------------------------------------
(* librustc/ty/adjustment.rs: Adjustment::is_identity.                     *)

\* The variants of Adjust without fields.
PlainAdjusts ==
    {"NeverToAny", "ReifyFnPointer", "UnsafeFnPointer", "ClosureFnPointer",
     "MutToConstPointer"}

\* Option<AutoBorrow>: None, Ref(region, mutability), RawPtr(mutability).
AutoBorrows ==
    {[tag |-> "None", mutbl |-> "-"]}
    \cup {[tag |-> t, mutbl |-> m] : t \in {"Ref", "RawPtr"},
                                     m \in {"MutMutable", "MutImmutable"}}

\* The target types drawn: the never type and some others.
TargetTys == {"Never", "Bool", "Ref", "FnPtr"}

\* The longest list of autoderefs drawn.
MaxAutoderefs == 2

\* Vec<Option<MethodCallee>> up to that length: built-in and overloaded
\* dereferences.
AutoderefLists ==
    UNION {[1..n -> {"None", "Some"}] : n \in 0..MaxAutoderefs}

\* struct Adjustment { kind, target }; the fields of DerefRef are kept for
\* the other variants of kind, and not read.
Adjustment(kind, target, autoderefs, autoref, unsize) ==
    [kind |-> kind, target |-> target, autoderefs |-> autoderefs,
     autoref |-> autoref, unsize |-> unsize]

Adjustments ==
    {Adjustment(k, t, <<>>, [tag |-> "None", mutbl |-> "-"], FALSE) :
       k \in PlainAdjusts, t \in TargetTys}
    \cup UNION {{Adjustment("DerefRef", t, d, r, u) : t \in TargetTys, d \in AutoderefLists} :
                  r \in AutoBorrows, u \in BOOLEAN}

\* TyS::is_never
is_never(t) == t = "Never"

\* Adjustment::is_identity that does not look at the target.
is_identity_any_target(self) ==
    \/ self.kind = "NeverToAny"
    \/ /\ self.kind = "DerefRef"
       /\ self.autoref.tag = "None"
       /\ ~self.unsize
       /\ self.autoderefs = <<>>

\* Adjustment::is_identity: the arms of the match, in their order.
is_identity(self) ==
    IF self.kind = "NeverToAny" THEN is_never(self.target)
    ELSE IF /\ self.kind = "DerefRef"
            /\ self.autoref.tag = "None"
            /\ self.unsize = FALSE
            /\ self.autoderefs = <<>>
    THEN TRUE
    ELSE FALSE

InitAdjust ==
    /\ ty = "OptBool"
    /\ arms = <<>>
    /\ arena = <<>>
    /\ matrix = <<>>
    /\ next_arm = 1
    /\ arm_usefulness = <<>>
    /\ witnesses = <<>>
    /\ usefulness = NoCall
    /\ calls = {}
    /\ pc = "adjustment"
    /\ sets = <<>>
    /\ op = "none"
    /\ out = <<>>
    /\ adjustment \in Adjustments

\* self.is_identity()
IsIdentity ==
    /\ pc = "adjustment"
    /\ op = "none"
    /\ op' = "is_identity"
    /\ out' = is_identity(adjustment)
    /\ UNCHANGED <<ty, arms, arena, matrix, next_arm, arm_usefulness, witnesses,
                   usefulness, calls, pc, sets, adjustment>>

NextAdjust == IsIdentity

SpecAdjust == InitAdjust /\ [][NextAdjust]_vars

\* C29: is_identity is true exactly for NeverToAny with the never type as
\* target and for DerefRef with no autoderefs, no autoref and no unsize; it
\* is false for the four pointer adjustments and every other DerefRef.
IdentityCases ==
    op = "is_identity" =>
      /\ out <=>
           \/ adjustment.kind = "NeverToAny" /\ adjustment.target = "Never"
           \/ /\ adjustment.kind = "DerefRef"
              /\ Len(adjustment.autoderefs) = 0
              /\ adjustment.autoref.tag = "None"
              /\ ~adjustment.unsize
      /\ adjustment.kind \in {"ReifyFnPointer", "UnsafeFnPointer",
                              "ClosureFnPointer", "MutToConstPointer"} => ~out

\* is_identity was called on NeverToAny with a target that is not the never
\* type, and returned false.
IdentityCasesWitness ==
    /\ op = "is_identity"
    /\ adjustment.kind = "NeverToAny"
    /\ adjustment.target # "Never"
    /\ out = FALSE

====
